---- MODULE Spec2Model ----
(***************************************************************************)
(* A model of the preprocessor of pp.hpp: the lexer (next), the macro      *)
(* table (#define / #undef), the macro expander and the conditional block  *)
(* machinery of expandMacros().  The buffer is a sequence of one-character *)
(* strings; the cursor is the 0-based offset of the C++ code.              *)
(***************************************************************************)
EXTENDS Integers, Sequences, FiniteSets, TLC

VARIABLES buffer, cursor, macros, functionMacros, functionMacroReplacements,
          lineoffset, result, stack, status, prog, ev, emitted, executed

vars == <<buffer, cursor, macros, functionMacros, functionMacroReplacements,
          lineoffset, result, stack, status, prog, ev, emitted, executed>>

(***************************************************************************)
(* Characters                                                              *)
(***************************************************************************)
Lower == {"a","b","c","d","e","f","g","h","i","j","k","l","m",
          "n","o","p","q","r","s","t","u","v","w","x","y","z"}
Upper == {"A","B","C","D","E","F","G","H","I","J","K","L","M",
          "N","O","P","Q","R","S","T","U","V","W","X","Y","Z"}
Digit == {"0","1","2","3","4","5","6","7","8","9"}

isalpha(c) == c \in Lower \cup Upper
isdigit(c) == c \in Digit
isalnum(c) == isalpha(c) \/ isdigit(c)
isspace(c) == c \in {" ", "\t", "\n", "\r", "\f"}

\* buffer[c] of the C++ code (0-based); callers guard c < Len(buf)
At(buf, c) == buf[c + 1]

\* std::string(buffer.c_str() + begin, len)
Text(buf, begin, len) == SubSeq(buf, begin + 1, begin + len)

(***************************************************************************)
(* skip_whitespace_and_comments                                            *)
(***************************************************************************)
RECURSIVE SkipToEol(_, _)
SkipToEol(buf, c) ==
  IF c < Len(buf) /\ At(buf, c) # "\n" THEN SkipToEol(buf, c + 1) ELSE c

RECURSIVE SkipToCommentEnd(_, _)
SkipToCommentEnd(buf, c) ==
  IF c + 1 < Len(buf) /\ ~(At(buf, c) = "*" /\ At(buf, c + 1) = "/")
  THEN SkipToCommentEnd(buf, c + 1)
  ELSE c

\* if (cursor + 1 < buffer.size()) cursor += 2;
AfterComment(buf, d) == IF d + 1 < Len(buf) THEN d + 2 ELSE d

RECURSIVE skip_whitespace_and_comments(_, _)
skip_whitespace_and_comments(buf, c) ==
  IF c >= Len(buf) THEN c
  ELSE IF isspace(At(buf, c)) /\ At(buf, c) # "\n"
       THEN skip_whitespace_and_comments(buf, c + 1)
  ELSE IF c + 1 < Len(buf) /\ At(buf, c) = "/" /\ At(buf, c + 1) = "/"
       THEN skip_whitespace_and_comments(buf, SkipToEol(buf, c))
  ELSE IF c + 1 < Len(buf) /\ At(buf, c) = "/" /\ At(buf, c + 1) = "*"
       THEN skip_whitespace_and_comments(buf, AfterComment(buf, SkipToCommentEnd(buf, c + 2)))
  ELSE c

(***************************************************************************)
(* next(): the token at the cursor.  Tok records the token and the cursor  *)
(* that next() leaves behind.                                              *)
(***************************************************************************)
Tok(b, l, k, c) == [begin |-> b, len |-> l, kind |-> k, cursor |-> c]

RECURSIVE IdentEnd(_, _)
IdentEnd(buf, c) ==
  IF c < Len(buf) /\ (isalnum(At(buf, c)) \/ At(buf, c) = "_")
  THEN IdentEnd(buf, c + 1) ELSE c

RECURSIVE DigitsEnd(_, _)
DigitsEnd(buf, c) ==
  IF c < Len(buf) /\ isdigit(At(buf, c)) THEN DigitsEnd(buf, c + 1) ELSE c

\* the while loop of the string literal rule; the cursor may pass the end
RECURSIVE StringBodyEnd(_, _)
StringBodyEnd(buf, c) ==
  IF c < Len(buf) /\ At(buf, c) # "\""
  THEN StringBodyEnd(buf, IF At(buf, c) = "\\" THEN c + 2 ELSE c + 1)
  ELSE c

Keyword(value) ==
  CASE value = <<"i","n","c","l","u","d","e">> -> "Include"
    [] value = <<"d","e","f","i","n","e">>     -> "Define"
    [] value = <<"u","n","d","e","f">>         -> "Undef"
    [] value = <<"i","f">>                     -> "If"
    [] value = <<"e","l","s","e">>             -> "Else"
    [] value = <<"e","n","d","i","f">>         -> "Endif"
    [] OTHER                                   -> "Ident"

\* is buffer[c] present and equal to ch
Is(buf, c, ch) == c < Len(buf) /\ At(buf, c) = ch

SingleKind(c) ==
  CASE c = "[" -> "L_Bracket" [] c = "]" -> "R_Bracket"
    [] c = "(" -> "L_Paren"   [] c = ")" -> "R_Paren"
    [] c = "{" -> "L_Brace"   [] c = "}" -> "R_Brace"
    [] c = "&" -> "Ampersand" [] c = "*" -> "Star"
    [] c = "+" -> "Plus"      [] c = "-" -> "Minus"
    [] c = "~" -> "Tilde"     [] c = "!" -> "Not"
    [] c = "/" -> "Slash"     [] c = "%" -> "Percent"
    [] c = "<" -> "Less"      [] c = ">" -> "Greater"
    [] c = "^" -> "XOR"       [] c = "|" -> "BitOr"
    [] c = "?" -> "Question"  [] c = ":" -> "Colon"
    [] c = ";" -> "Semicolon" [] c = "=" -> "Assign"
    [] c = "," -> "Comma"
    [] OTHER   -> "Unknown"

\* the punctuator rules of next(), s = start, cursor already at s + 1
Punctuator(buf, s) ==
  LET c == At(buf, s)
      n == s + 1
  IN
  IF c = "." THEN
       IF n + 2 < Len(buf) /\ At(buf, n) = "." /\ At(buf, n + 1) = "."
       THEN Tok(s, 3, "Ellipsis", n + 2)
       ELSE Tok(s, 1, "Dot", n)
  ELSE IF c = "-" /\ Is(buf, n, ">") THEN Tok(s, 2, "Arrow", n + 1)
  ELSE IF c = "+" /\ Is(buf, n, "+") THEN Tok(s, 2, "PlusPlus", n + 1)
  ELSE IF c = "-" /\ Is(buf, n, "-") THEN Tok(s, 2, "MinusMinus", n + 1)
  ELSE IF c = "&" /\ Is(buf, n, "&") THEN Tok(s, 2, "LogicAnd", n + 1)
  ELSE IF c = "|" /\ Is(buf, n, "|") THEN Tok(s, 2, "LogicOr", n + 1)
  ELSE IF c = "<" /\ Is(buf, n, "<") THEN
       IF Is(buf, n + 1, "=") THEN Tok(s, 3, "LessLessEqual", n + 2)
       ELSE Tok(s, 2, "LessLess", n + 1)
  ELSE IF c = ">" /\ Is(buf, n, ">") THEN
       IF Is(buf, n + 1, "=") THEN Tok(s, 3, "GreaterGreaterEqual", n + 2)
       ELSE Tok(s, 2, "GreaterGreater", n + 1)
  ELSE IF c = "<" /\ Is(buf, n, "=") THEN Tok(s, 2, "LessEqual", n + 1)
  ELSE IF c = ">" /\ Is(buf, n, "=") THEN Tok(s, 2, "GreaterEqual", n + 1)
  ELSE IF c = "=" /\ Is(buf, n, "=") THEN Tok(s, 2, "EqualEqual", n + 1)
  ELSE IF c = "!" /\ Is(buf, n, "=") THEN Tok(s, 2, "ExclamationEqual", n + 1)
  ELSE IF c = "*" /\ Is(buf, n, "=") THEN Tok(s, 2, "MulAssign", n + 1)
  ELSE IF c = "/" /\ Is(buf, n, "=") THEN Tok(s, 2, "DivAssign", n + 1)
  ELSE IF c = "%" /\ Is(buf, n, "=") THEN Tok(s, 2, "ModAssign", n + 1)
  ELSE IF c = "+" /\ Is(buf, n, "=") THEN Tok(s, 2, "AddAssign", n + 1)
  ELSE IF c = "-" /\ Is(buf, n, "=") THEN Tok(s, 2, "MinusEqual", n + 1)
  ELSE IF c = "&" /\ Is(buf, n, "=") THEN Tok(s, 2, "BitAndEqual", n + 1)
  ELSE IF c = "^" /\ Is(buf, n, "=") THEN Tok(s, 2, "XorAssign", n + 1)
  ELSE IF c = "|" /\ Is(buf, n, "=") THEN Tok(s, 2, "OrAssign", n + 1)
  ELSE Tok(s, 1, SingleKind(c), n)

\* the tokens that end at e, a position found by one of the scanning loops
IdentToken(buf, s, e) == Tok(s, e - s, Keyword(Text(buf, s, e - s)), e)
NumberToken(buf, s, e) == Tok(s, e - s, "Number", e)
StringToken(buf, s, b) ==
  IF b < Len(buf) THEN Tok(s, b + 1 - s, "StringLiteral", b + 1)
  ELSE Tok(s, b - s, "StringLiteral", b)

\* next() once skip_whitespace_and_comments has put the cursor at s
NextAt(buf, s) ==
  IF s >= Len(buf) THEN Tok(s, 0, "T_EOF", s)
  ELSE LET c == At(buf, s) IN
    IF c = "\n" THEN Tok(s, 1, "Unknown", s + 1)
    ELSE IF isalpha(c) \/ c = "_" THEN IdentToken(buf, s, IdentEnd(buf, s))
    ELSE IF isdigit(c) THEN NumberToken(buf, s, DigitsEnd(buf, s))
    ELSE IF c = "\"" THEN StringToken(buf, s, StringBodyEnd(buf, s + 1))
    ELSE IF c = "#" THEN
         IF Is(buf, s + 1, "#") THEN Tok(s, 2, "HashHash", s + 2)
         ELSE Tok(s, 1, "Hash", s + 1)
    ELSE Punctuator(buf, s)

\* a next() whose end-of-input token moves the cursor on
NextPastEnd(buf, cur) ==
  IF skip_whitespace_and_comments(buf, cur) >= Len(buf)
  THEN Tok(cur, 0, "T_EOF", cur + 1)
  ELSE NextAt(buf, skip_whitespace_and_comments(buf, cur))

next(buf, cur) == NextAt(buf, skip_whitespace_and_comments(buf, cur))

\* the newline rule of next() calls lincol_.addLine(cursor)
IsNewline(buf, t) == t.kind = "Unknown" /\ At(buf, t.begin) = "\n"
addLine(lines, buf, t) == IF IsNewline(buf, t) THEN Append(lines, t.cursor) ELSE lines

\* getTokenText
getTokenText(buf, t) ==
  IF t.begin + t.len > Len(buf) THEN <<>> ELSE Text(buf, t.begin, t.len)

(***************************************************************************)
(* The macro table: std::map as a function on its set of keys              *)
(***************************************************************************)
EmptyMap == [k \in {} |-> <<>>]
Has(m, k) == k \in DOMAIN m
Put(m, k, v) == [x \in DOMAIN m \cup {k} |-> IF x = k THEN v ELSE m[x]]
Erase(m, k) == [x \in DOMAIN m \ {k} |-> m[x]]

RECURSIVE TrimRight(_)
TrimRight(s) ==
  IF s # <<>> /\ isspace(s[Len(s)]) THEN TrimRight(SubSeq(s, 1, Len(s) - 1)) ELSE s

LineTo(buf, c, e) == [line |-> TrimRight(Text(buf, c, e - c)), cursor |-> e]

read_line(buf, c) == LineTo(buf, c, SkipToEol(buf, c))

\* What a directive handler leaves: ok = FALSE is a thrown std::runtime_error
Outcome(ok, c, lines, m, fm, fmr) ==
  [ok |-> ok, cursor |-> c, lineoffset |-> lines, macros |-> m,
   functionMacros |-> fm, functionMacroReplacements |-> fmr]

IncludeHeader(buf, header, lines, m, fm, fmr) ==
  Outcome(header.kind = "StringLiteral", header.cursor,
          addLine(lines, buf, header), m, fm, fmr)

handle_include(buf, c, lines, m, fm, fmr) ==
  IncludeHeader(buf, next(buf, c), lines, m, fm, fmr)

StoreObjectMacro(replacement, lines, m, fm, fmr, macroName) ==
  Outcome(TRUE, replacement.cursor, lines, Put(m, macroName, replacement.line), fm, fmr)

handle_object_macro(buf, c, lines, m, fm, fmr, macroName) ==
  StoreObjectMacro(read_line(buf, skip_whitespace_and_comments(buf, c)),
                   lines, m, fm, fmr, macroName)

\* The parameter loop of handle_function_macro: ParseParameters is the loop
\* head, ParameterAt the body after the first skip, ParameterToken the body
\* after next(), ParameterEnd the body after the second skip.
Parsed(ok, c, parameters, lines) ==
  [ok |-> ok, cursor |-> c, parameters |-> parameters, lines |-> lines]

RECURSIVE ParseParameters(_, _, _, _)
RECURSIVE ParameterAt(_, _, _, _)
RECURSIVE ParameterToken(_, _, _, _)
RECURSIVE ParameterEnd(_, _, _, _)

ParseParameters(buf, c, parameters, lines) ==
  IF c >= Len(buf) THEN Parsed(TRUE, c, parameters, lines)
  ELSE ParameterAt(buf, skip_whitespace_and_comments(buf, c), parameters, lines)

ParameterAt(buf, c, parameters, lines) ==
  IF Is(buf, c, ")") THEN Parsed(TRUE, c + 1, parameters, lines)
  ELSE ParameterToken(buf, next(buf, c), parameters, lines)

ParameterToken(buf, param, parameters, lines) ==
  IF param.kind # "Ident"
  THEN Parsed(FALSE, param.cursor, parameters, addLine(lines, buf, param))
  ELSE ParameterEnd(buf, skip_whitespace_and_comments(buf, param.cursor),
                    Append(parameters, Text(buf, param.begin, param.len)), lines)

ParameterEnd(buf, c, parameters, lines) ==
  IF Is(buf, c, ",") THEN ParseParameters(buf, c + 1, parameters, lines)
  ELSE IF Is(buf, c, ")") THEN Parsed(TRUE, c + 1, parameters, lines)
  ELSE ParseParameters(buf, c, parameters, lines)

StoreFunctionMacro(replacement, parameters, lines, m, fm, fmr, macroName) ==
  Outcome(TRUE, replacement.cursor, lines, m,
          Put(fm, macroName, parameters), Put(fmr, macroName, replacement.line))

FunctionMacroParsed(buf, p, m, fm, fmr, macroName) ==
  IF ~p.ok THEN Outcome(FALSE, p.cursor, p.lines, m, fm, fmr)
  ELSE StoreFunctionMacro(read_line(buf, p.cursor), p.parameters, p.lines,
                          m, fm, fmr, macroName)

handle_function_macro(buf, c, lines, m, fm, fmr, macroName) ==
  FunctionMacroParsed(buf, ParseParameters(buf, c + 1, <<>>, lines), m, fm, fmr, macroName)

\* handle_define once next() has returned the token after "define"
DefineNamed(buf, name, lines, m, fm, fmr) ==
  IF name.kind # "Ident"
  THEN Outcome(FALSE, name.cursor, addLine(lines, buf, name), m, fm, fmr)
  ELSE IF Is(buf, name.cursor, "(")
       THEN handle_function_macro(buf, name.cursor, lines, m, fm, fmr,
                                  Text(buf, name.begin, name.len))
       ELSE handle_object_macro(buf, name.cursor, lines, m, fm, fmr,
                                Text(buf, name.begin, name.len))

handle_define(buf, c, lines, m, fm, fmr) ==
  DefineNamed(buf, next(buf, c), lines, m, fm, fmr)

\* macros.erase(macroName); functionMacros.erase(macroName);
\* an #undef that forgets the function macro maps
EraseObjectMacroOnly(m, fm, fmr, macroName) ==
  [macros |-> Erase(m, macroName), functionMacros |-> fm,
   functionMacroReplacements |-> fmr]

EraseMacro(m, fm, fmr, macroName) ==
  [macros |-> Erase(m, macroName), functionMacros |-> Erase(fm, macroName),
   functionMacroReplacements |-> fmr]

\* handle_undef once next() has returned the token after "undef"
UndefNamed(buf, name, lines, m, fm, fmr, erased) ==
  IF name.kind # "Ident"
  THEN Outcome(FALSE, name.cursor, addLine(lines, buf, name), m, fm, fmr)
  ELSE Outcome(TRUE, name.cursor, lines, erased.macros, erased.functionMacros,
               erased.functionMacroReplacements)

handle_undef(buf, c, lines, m, fm, fmr) ==
  UndefNamed(buf, next(buf, c), lines, m, fm, fmr,
             EraseMacro(m, fm, fmr, getTokenText(buf, next(buf, c))))

(***************************************************************************)
(* evaluate_condition                                                      *)
(***************************************************************************)
RECURSIVE FirstNotOf(_, _, _)
FirstNotOf(s, set, i) ==
  IF i >= Len(s) THEN -1 ELSE IF At(s, i) \notin set THEN i ELSE FirstNotOf(s, set, i + 1)

RECURSIVE LastNotOf(_, _, _)
LastNotOf(s, set, i) ==
  IF i < 0 THEN -1 ELSE IF At(s, i) \notin set THEN i ELSE LastNotOf(s, set, i - 1)

Blank == {" ", "\t"}

DigitValue(d) ==
  CASE d = "0" -> 0 [] d = "1" -> 1 [] d = "2" -> 2 [] d = "3" -> 3 [] d = "4" -> 4
    [] d = "5" -> 5 [] d = "6" -> 6 [] d = "7" -> 7 [] d = "8" -> 8 [] d = "9" -> 9

\* The digits of s from offset i, accumulated as a negative number the way
\* strtol does; "range" is std::out_of_range.  acc stays within 32 bits.
RECURSIVE Accumulate(_, _, _, _)
Accumulate(s, i, neg, acc) ==
  IF i >= Len(s) \/ ~isdigit(At(s, i)) THEN [range |-> FALSE, value |-> acc]
  ELSE LET d == DigitValue(At(s, i))
           last == IF neg THEN 8 ELSE 7
       IN  IF acc < -214748364 \/ (acc = -214748364 /\ d > last)
           THEN [range |-> TRUE, value |-> 0]
           ELSE Accumulate(s, i + 1, neg, acc * 10 - d)

StoiResult(r) == ~r.range /\ r.value # 0

\* try { return std::stoi(text) != 0; } catch (...) { return false; }
\* text starts with a digit or '-'
StoiNonZero(s) ==
  IF s[1] = "-"
  THEN IF 1 >= Len(s) \/ ~isdigit(At(s, 1)) THEN FALSE
       ELSE StoiResult(Accumulate(s, 1, TRUE, 0))
  ELSE StoiResult(Accumulate(s, 0, FALSE, 0))

expandMacrosInCondition(condition, m) ==
  IF Has(m, condition) THEN m[condition] ELSE condition

Defined == <<"d","e","f","i","n","e","d","(">>

\* macros.find(macroName) != macros.end() || functionMacros.find(macroName) != ...
\* a defined() that looks in the object macro map only
IsDefinedObjectOnly(m, fm, macroName) == Has(m, macroName)

IsDefined(m, fm, macroName) == Has(m, macroName) \/ Has(fm, macroName)

\* a number check that takes every text that is not empty for true
EvaluateExpandedNotEmpty(expandedCondition) == expandedCondition # <<>>

\* the number check on the condition after expandMacrosInCondition
EvaluateExpanded(expandedCondition) ==
  IF expandedCondition # <<>>
     /\ (isdigit(expandedCondition[1]) \/ expandedCondition[1] = "-")
  THEN StoiNonZero(expandedCondition)
  ELSE FALSE

\* evaluate_condition on the condition without its outer blanks
EvaluateTrimmed(trimmed, m, fm) ==
  IF Len(trimmed) >= 8 /\ Text(trimmed, 0, 8) = Defined /\ trimmed[Len(trimmed)] = ")"
  THEN IsDefined(m, fm, Text(trimmed, 8, Len(trimmed) - 9))
  ELSE EvaluateExpanded(expandMacrosInCondition(trimmed, m))

TrimBetween(condition, start, end) == Text(condition, start, end - start + 1)

evaluate_condition(condition, m, fm) ==
  IF FirstNotOf(condition, Blank, 0) = -1 THEN FALSE
  ELSE EvaluateTrimmed(TrimBetween(condition, FirstNotOf(condition, Blank, 0),
                                   LastNotOf(condition, Blank, Len(condition) - 1)),
                       m, fm)

(***************************************************************************)
(* expandFunctionMacro                                                     *)
(***************************************************************************)
\* the argument walk: args collected so far, the argument being read, depth
RECURSIVE ScanArguments(_, _, _, _, _)
ScanArguments(buf, c, args, currentArg, parenDepth) ==
  IF c >= Len(buf) THEN [cursor |-> c, args |-> args]
  ELSE LET ch == At(buf, c) IN
       IF ch = "("
       THEN ScanArguments(buf, c + 1, args, Append(currentArg, ch), parenDepth + 1)
       ELSE IF ch = ")"
       THEN IF parenDepth = 0
            THEN [cursor |-> c + 1,
                  args |-> IF currentArg # <<>> THEN Append(args, currentArg) ELSE args]
            ELSE ScanArguments(buf, c + 1, args, Append(currentArg, ch), parenDepth - 1)
       ELSE IF ch = "," /\ parenDepth = 0
       THEN ScanArguments(buf, c + 1, Append(args, currentArg), <<>>, parenDepth)
       ELSE ScanArguments(buf, c + 1, args, Append(currentArg, ch), parenDepth)

\* arg.substr(start, end - start + 1) when the argument is not all blanks
TrimArgument(arg) ==
  IF FirstNotOf(arg, Blank, 0) # -1
  THEN TrimBetween(arg, FirstNotOf(arg, Blank, 0), LastNotOf(arg, Blank, Len(arg) - 1))
  ELSE arg

\* std::string::find(pat, pos); -1 is npos
RECURSIVE Find(_, _, _)
Find(s, pat, pos) ==
  IF pos + Len(pat) > Len(s) THEN -1
  ELSE IF Text(s, pos, Len(pat)) = pat THEN pos ELSE Find(s, pat, pos + 1)

\* while ((pos = replacement.find(param, pos)) != npos) { replace; pos += arg.length(); }
\* replacement.replace(p, param.length(), arg)
Replace(replacement, p, n, arg) ==
  Text(replacement, 0, p) \o arg \o Text(replacement, p + n, Len(replacement) - p - n)

RECURSIVE ReplaceParameter(_, _, _, _)
RECURSIVE ReplaceAt(_, _, _, _)
ReplaceParameter(replacement, param, arg, pos) ==
  ReplaceAt(replacement, param, arg, Find(replacement, param, pos))

ReplaceAt(replacement, param, arg, p) ==
  IF p = -1 THEN replacement
  ELSE ReplaceParameter(Replace(replacement, p, Len(param), arg), param, arg, p + Len(arg))

\* for (i = 0; i < params.size() && i < args.size(); i++)
RECURSIVE Substitute(_, _, _, _)
Substitute(replacement, params, args, i) ==
  IF i > Len(params) \/ i > Len(args) THEN replacement
  ELSE Substitute(ReplaceParameter(replacement, params[i], TrimArgument(args[i]), 0),
                  params, args, i + 1)

Expansion(c, text, args) == [cursor |-> c, text |-> text, args |-> args]

\* an expansion that leaves a call with the wrong number of arguments alone
ExpandScannedSameArity(a, fm, fmr, macroName) ==
  IF ~Has(fmr, macroName) THEN Expansion(a.cursor, macroName, a.args)
  ELSE IF Has(fm, macroName)
       THEN Expansion(a.cursor,
                      IF Len(a.args) = Len(fm[macroName])
                      THEN Substitute(fmr[macroName], fm[macroName], a.args, 1)
                      ELSE macroName,
                      a.args)
       ELSE Expansion(a.cursor, fmr[macroName], a.args)

\* expandFunctionMacro once the arguments have been scanned
ExpandScanned(a, fm, fmr, macroName) ==
  IF ~Has(fmr, macroName) THEN Expansion(a.cursor, macroName, a.args)
  ELSE IF Has(fm, macroName)
       THEN Expansion(a.cursor, Substitute(fmr[macroName], fm[macroName], a.args, 1), a.args)
       ELSE Expansion(a.cursor, fmr[macroName], a.args)

\* expandFunctionMacro once skip_whitespace_and_comments has run
ExpandAt(buf, c, fm, fmr, macroName) ==
  IF ~Is(buf, c, "(") THEN Expansion(c, macroName, <<>>)
  ELSE ExpandScanned(ScanArguments(buf, c + 1, <<>>, <<>>, 0), fm, fmr, macroName)

expandFunctionMacro(buf, c, fm, fmr, macroName) ==
  ExpandAt(buf, skip_whitespace_and_comments(buf, c), fm, fmr, macroName)

(***************************************************************************)
(* The skip loops of the conditional machinery                             *)
(***************************************************************************)
\* skipConditionalBlock / skip_until_else_or_endif (stopAtElse) and
\* skip_until_endif (~stopAtElse): the same loop with and without the
\* "#else at depth 1" exit.  SkipBlock is the loop head, SkipToken the body
\* after next(), SkipDirective the body after the second next().
RECURSIVE SkipBlock(_, _, _, _, _)
RECURSIVE SkipToken(_, _, _, _, _)
RECURSIVE SkipDirective(_, _, _, _, _)

SkipBlock(buf, c, lines, depth, stopAtElse) ==
  IF ~(c < Len(buf) /\ depth > 0) THEN [cursor |-> c, lines |-> lines]
  ELSE SkipToken(buf, next(buf, c), lines, depth, stopAtElse)

SkipToken(buf, tk, lines, depth, stopAtElse) ==
  IF tk.kind # "Hash"
  THEN SkipBlock(buf, tk.cursor, addLine(lines, buf, tk), depth, stopAtElse)
  ELSE SkipDirective(buf, next(buf, tk.cursor), lines, depth, stopAtElse)

SkipDirective(buf, dir, lines, depth, stopAtElse) ==
  IF dir.kind = "If"
  THEN SkipBlock(buf, dir.cursor, lines, depth + 1, stopAtElse)
  ELSE IF dir.kind = "Endif"
  THEN SkipBlock(buf, dir.cursor, lines, depth - 1, stopAtElse)
  ELSE IF dir.kind = "Else" /\ depth = 1 /\ stopAtElse
  THEN [cursor |-> dir.cursor, lines |-> lines]
  ELSE SkipBlock(buf, dir.cursor, addLine(lines, buf, dir), depth, stopAtElse)

skipConditionalBlock(buf, c, lines) == SkipBlock(buf, c, lines, 1, TRUE)

skip_until_endif(buf, c, lines) == SkipBlock(buf, c, lines, 1, FALSE)

\* The loop of findMatchingElse, in the same three parts.
Found(found, c, lines) == [found |-> found, cursor |-> c, lines |-> lines]

RECURSIVE FindElse(_, _, _)
RECURSIVE FindToken(_, _, _)
RECURSIVE FindDirective(_, _, _)

FindElse(buf, c, lines) ==
  IF c >= Len(buf) THEN Found(FALSE, c, lines)
  ELSE FindToken(buf, next(buf, c), lines)

FindToken(buf, tk, lines) ==
  IF tk.kind # "Hash" THEN FindElse(buf, tk.cursor, addLine(lines, buf, tk))
  ELSE FindDirective(buf, next(buf, tk.cursor), lines)

FindDirective(buf, dir, lines) ==
  IF dir.kind = "Else" THEN Found(TRUE, dir.cursor, lines)
  ELSE IF dir.kind = "Endif" THEN Found(FALSE, dir.cursor, lines)
  ELSE FindElse(buf, dir.cursor, addLine(lines, buf, dir))

\* cursor = savedCursor when no #else is found
RestoreUnlessFound(f, savedCursor) ==
  Found(f.found, IF f.found THEN f.cursor ELSE savedCursor, f.lines)

findMatchingElse(buf, c, lines) == RestoreUnlessFound(FindElse(buf, c, lines), c)

(***************************************************************************)
(* The driver: processAndExpand and, inside a conditional block,           *)
(* processConditionalBlock.  One step is one iteration of the loop that is *)
(* running; stack holds the activations of processConditionalBlock that    *)
(* handle_if_with_expansion has started and that have not returned.  Each  *)
(* action hands the token that next() returns, and for a '#' the token     *)
(* after it, to the step that handles it.                                  *)
(***************************************************************************)

Running == status = "running"
InBlock == stack # <<>>
Top == stack[Len(stack)]
\* an activation that does not return
KeepFrame == stack
Pop == SubSeq(stack, 1, Len(stack) - 1)

\* while (cursor < buffer.size()) and, in a block, && depth > 0
LoopCondition == cursor < Len(buffer) /\ (InBlock => Top.depth > 0)

token == next(buffer, cursor)
directive == next(buffer, token.cursor)

\* an activation of processConditionalBlock: its parameter and its local
\* depth; start, for the properties, is the offset of the '#' of the #if
\* whose handle_if_with_expansion has called it
Frame(isIfBranch) == [isIfBranch |-> isIfBranch, depth |-> 1, start |-> token.begin]

\* the record of the step just taken, for the properties
Event(op, pos, name, text, flag) ==
  [op |-> op, name |-> name, text |-> text, flag |-> flag,
   pos |-> pos, depth |-> Len(stack), cursor |-> cursor]

\* a directive handler's outcome becomes the state; a throw ends the run
Apply(o) ==
  /\ cursor' = o.cursor
  /\ lineoffset' = o.lineoffset
  /\ macros' = o.macros
  /\ functionMacros' = o.functionMacros
  /\ functionMacroReplacements' = o.functionMacroReplacements
  /\ status' = IF o.ok THEN "running" ELSE "error"

AtDirective(tk, dir, kind) ==
  /\ Running /\ LoopCondition
  /\ tk.kind = "Hash"
  /\ dir.kind = kind

\* the text of the token that follows the directive keyword
NameAfter(dir) == getTokenText(buffer, next(buffer, dir.cursor))

\* the loop ends: its condition fails or next() returns T_EOF
LoopEnds(tk) ==
  /\ ~LoopCondition \/ tk.kind = "T_EOF"
  /\ cursor' = IF LoopCondition THEN tk.cursor ELSE cursor

\* return result.str()
Finish ==
  /\ Running /\ ~InBlock
  /\ LoopEnds(token)
  /\ status' = "done"
  /\ ev' = Event("finish", cursor, <<>>, <<>>, FALSE)
  /\ UNCHANGED <<buffer, macros, functionMacros, functionMacroReplacements,
                 lineoffset, result, stack, prog, emitted, executed>>

\* processConditionalBlock falls out of its loop
ReturnAtEnd ==
  /\ Running /\ InBlock
  /\ LoopEnds(token)
  /\ stack' = Pop
  /\ ev' = Event("return", cursor, <<>>, <<>>, FALSE)
  /\ UNCHANGED <<buffer, macros, functionMacros, functionMacroReplacements,
                 lineoffset, result, status, prog, emitted, executed>>

\* #include: validated by processAndExpand, passed over inside a block
IncludeStep(tk, dir) ==
  /\ AtDirective(tk, dir, "Include")
  /\ IF InBlock
     THEN /\ cursor' = dir.cursor
          /\ UNCHANGED <<lineoffset, macros, functionMacros,
                         functionMacroReplacements, status>>
     ELSE Apply(handle_include(buffer, dir.cursor, lineoffset, macros,
                               functionMacros, functionMacroReplacements))
  /\ ev' = Event("include", tk.begin, <<>>, <<>>, InBlock)
  /\ UNCHANGED <<buffer, result, stack, prog, emitted, executed>>

HandleInclude == IncludeStep(token, directive)

DefineStep(tk, dir) ==
  /\ AtDirective(tk, dir, "Define")
  /\ Apply(handle_define(buffer, dir.cursor, lineoffset, macros,
                         functionMacros, functionMacroReplacements))
  /\ ev' = Event("define", tk.begin, NameAfter(dir), <<>>, FALSE)
  /\ executed' = executed \cup {tk.begin}
  /\ UNCHANGED <<buffer, result, stack, prog, emitted>>

HandleDefine == DefineStep(token, directive)

UndefStep(tk, dir) ==
  /\ AtDirective(tk, dir, "Undef")
  /\ Apply(handle_undef(buffer, dir.cursor, lineoffset, macros,
                        functionMacros, functionMacroReplacements))
  /\ ev' = Event("undef", tk.begin, NameAfter(dir), <<>>, FALSE)
  /\ executed' = executed \cup {tk.begin}
  /\ UNCHANGED <<buffer, result, stack, prog, emitted>>

HandleUndef == UndefStep(token, directive)

\* the false case of handle_if_with_expansion: f is what findMatchingElse
\* returns after skipConditionalBlock
SkipOrElse(f) ==
  /\ cursor' = f.cursor
  /\ lineoffset' = f.lines
  /\ stack' = IF f.found THEN Append(stack, Frame(FALSE)) ELSE stack

FalseBranch(s) == SkipOrElse(findMatchingElse(buffer, s.cursor, s.lines))

\* handle_if_with_expansion up to the call of processConditionalBlock, which
\* the following steps run; in a block the depth++ / depth-- around the call
\* cancel
IfEvaluated(tk, condition, conditionResult) ==
  /\ ev' = Event("if", tk.begin, <<>>, condition.line, conditionResult)
  /\ IF conditionResult
     THEN /\ cursor' = condition.cursor
          /\ stack' = Append(stack, Frame(TRUE))
          /\ UNCHANGED lineoffset
     ELSE FalseBranch(skipConditionalBlock(buffer, condition.cursor, lineoffset))

IfRead(tk, condition) ==
  IfEvaluated(tk, condition, evaluate_condition(condition.line, macros, functionMacros))

IfStep(tk, dir) ==
  /\ AtDirective(tk, dir, "If")
  /\ IfRead(tk, read_line(buffer, dir.cursor))
  /\ UNCHANGED <<buffer, macros, functionMacros, functionMacroReplacements,
                 result, status, prog, emitted, executed>>

HandleIfWithExpansion == IfStep(token, directive)

\* handle_else of processAndExpand
SkipElseBranch(s) ==
  /\ cursor' = s.cursor
  /\ lineoffset' = s.lines
  /\ UNCHANGED stack

\* #else: processAndExpand calls handle_else (skip_until_endif); the if-branch
\* activation returns; the else-branch activation goes on
ElseStep(tk, dir) ==
  /\ AtDirective(tk, dir, "Else")
  /\ ev' = Event("else", tk.begin, <<>>, <<>>, InBlock)
  /\ IF ~InBlock
     THEN SkipElseBranch(skip_until_endif(buffer, dir.cursor, lineoffset))
     ELSE /\ cursor' = dir.cursor
          /\ stack' = IF Top.depth = 1 /\ Top.isIfBranch THEN Pop ELSE stack
          /\ UNCHANGED lineoffset
  /\ UNCHANGED <<buffer, macros, functionMacros, functionMacroReplacements,
                 result, status, prog, emitted, executed>>

HandleElse == ElseStep(token, directive)

\* #endif: handle_endif does nothing; in a block depth-- and return at 0
EndifStep(tk, dir) ==
  /\ AtDirective(tk, dir, "Endif")
  /\ ev' = Event("endif", tk.begin, <<>>, <<>>, InBlock)
  /\ cursor' = dir.cursor
  /\ stack' = IF ~InBlock THEN stack
              ELSE IF Top.depth - 1 = 0 THEN Pop
              ELSE [stack EXCEPT ![Len(stack)].depth = @ - 1]
  /\ UNCHANGED <<buffer, macros, functionMacros, functionMacroReplacements,
                 lineoffset, result, status, prog, emitted, executed>>

HandleEndif == EndifStep(token, directive)

DirectiveKinds == {"Include", "Define", "Undef", "If", "Else", "Endif"}

\* '#' followed by any other token: the token is consumed, nothing is done
OtherStep(tk, dir) ==
  /\ Running /\ LoopCondition
  /\ tk.kind = "Hash"
  /\ dir.kind \notin DirectiveKinds
  /\ ev' = Event("other", tk.begin, <<>>, <<>>, InBlock)
  /\ cursor' = dir.cursor
  /\ lineoffset' = addLine(lineoffset, buffer, dir)
  /\ UNCHANGED <<buffer, macros, functionMacros, functionMacroReplacements,
                 result, stack, status, prog, emitted, executed>>

OtherDirective == OtherStep(token, directive)

\* if (token.kind == TokenKind::Unknown) { result << "\n"; continue; }
NewlineStep(tk) ==
  /\ Running /\ LoopCondition
  /\ tk.kind = "Unknown"
  /\ ev' = Event("newline", tk.begin, <<>>, <<"\n">>, IsNewline(buffer, tk))
  /\ cursor' = tk.cursor
  /\ lineoffset' = addLine(lineoffset, buffer, tk)
  /\ result' = result \o <<"\n">>
  /\ UNCHANGED <<buffer, macros, functionMacros, functionMacroReplacements,
                 stack, status, prog, emitted, executed>>

EmitNewline == NewlineStep(token)

\* the lookahead for '(' after the name of a function macro: savedCursor is
\* tk.cursor, and the cursor goes back to it when there is no '('
IsCall(tk) ==
  /\ tk.kind = "Ident"
  /\ Has(functionMacros, getTokenText(buffer, tk))
  /\ Is(buffer, skip_whitespace_and_comments(buffer, tk.cursor), "(")

\* an expansion that expands a body which is itself a macro name once more
ObjectMacroTextRescanned(m, name) == IF Has(m, m[name]) THEN m[m[name]] ELSE m[name]

\* result << macros[tokenText]
ObjectMacroText(m, name) == m[name]

\* result << expanded
Expanded(tk, e) ==
  /\ ev' = Event("call", tk.begin, getTokenText(buffer, tk), e.text, FALSE)
  /\ cursor' = e.cursor
  /\ result' = result \o e.text

CallStep(tk) ==
  /\ Running /\ LoopCondition
  /\ IsCall(tk)
  /\ Expanded(tk, expandFunctionMacro(buffer,
                                      skip_whitespace_and_comments(buffer, tk.cursor),
                                      functionMacros, functionMacroReplacements,
                                      getTokenText(buffer, tk)))
  /\ emitted' = emitted \cup {tk.begin}
  /\ UNCHANGED <<buffer, macros, functionMacros, functionMacroReplacements,
                 lineoffset, stack, status, prog, executed>>

ExpandFunctionMacroCall == CallStep(token)

ObjectStep(tk, tokenText) ==
  /\ Running /\ LoopCondition
  /\ tk.kind = "Ident" /\ ~IsCall(tk)
  /\ Has(macros, tokenText)
  /\ ev' = Event("object", tk.begin, tokenText, ObjectMacroText(macros, tokenText),
                 Has(functionMacros, tokenText))
  /\ cursor' = tk.cursor
  /\ result' = result \o ObjectMacroText(macros, tokenText)
  /\ emitted' = emitted \cup {tk.begin}
  /\ UNCHANGED <<buffer, macros, functionMacros, functionMacroReplacements,
                 lineoffset, stack, status, prog, executed>>

ExpandObjectMacro == ObjectStep(token, getTokenText(buffer, token))

SpaceBefore == {"Assign", "Plus", "Minus", "Star", "Slash"}
SpaceAfter == {"Ident", "Number", "Assign", "Plus", "Minus", "Star", "Slash"}

\* the text a regular token adds to the output, with its formatting spaces
RegularText(buf, t) ==
  (IF t.kind \in SpaceBefore THEN <<" ">> ELSE <<>>)
  \o getTokenText(buf, t)
  \o (IF t.kind \in SpaceAfter /\ t.cursor < Len(buf)
         /\ At(buf, t.cursor) \notin {";", "(", ")"}
      THEN <<" ">> ELSE <<>>)
  \o (IF t.kind = "Semicolon" THEN <<" ">> ELSE <<>>)

TokenStep(tk, tokenText) ==
  /\ Running /\ LoopCondition
  /\ tk.kind \notin {"T_EOF", "Hash", "Unknown"}
  /\ tk.kind = "Ident" => ~IsCall(tk) /\ ~Has(macros, tokenText)
  /\ ev' = Event("token", tk.begin, tokenText, RegularText(buffer, tk),
                 tk.kind = "Ident" /\ Has(functionMacros, tokenText))
  /\ cursor' = tk.cursor
  /\ result' = result \o RegularText(buffer, tk)
  /\ emitted' = emitted \cup {tk.begin}
  /\ UNCHANGED <<buffer, macros, functionMacros, functionMacroReplacements,
                 lineoffset, stack, status, prog, executed>>

EmitToken == TokenStep(token, getTokenText(buffer, token))

(***************************************************************************)
(* Input buffers.  A program is a sequence of lines; each line carries its *)
(* text and, for the properties, what it is: its kind, what an #if with a  *)
(* literal condition evaluates to ("T", "F"; "dyn" when the condition      *)
(* depends on the macro table) and the macro it names.                     *)
(***************************************************************************)
Line(kind, cond, name, text) == [kind |-> kind, cond |-> cond, name |-> name, text |-> text]

\* #if 1
IfTrue ==
  Line("if", "T", <<>>,
       <<"#","i","f"," ","1","\n">>)

\* #if 0
IfFalse ==
  Line("if", "F", <<>>,
       <<"#","i","f"," ","0","\n">>)

\* #else
Else ==
  Line("else", "-", <<>>,
       <<"#","e","l","s","e","\n">>)

\* #endif
Endif ==
  Line("endif", "-", <<>>,
       <<"#","e","n","d","i","f","\n">>)

\* A
UseA ==
  Line("text", "-", <<"A">>,
       <<"A","\n">>)

\* B
UseB ==
  Line("text", "-", <<"B">>,
       <<"B","\n">>)

\* #define A 1
DefA ==
  Line("define", "-", <<"A">>,
       <<"#","d","e","f","i","n","e"," ","A"," ","1","\n">>)

\* #define A
DefAEmpty ==
  Line("define", "-", <<"A">>,
       <<"#","d","e","f","i","n","e"," ","A","\n">>)

\* #undef A
UndefA ==
  Line("undef", "-", <<"A">>,
       <<"#","u","n","d","e","f"," ","A","\n">>)

\* #define B A
DefB ==
  Line("define", "-", <<"B">>,
       <<"#","d","e","f","i","n","e"," ","B"," ","A","\n">>)

\* #define F(x,y) x+y
DefF ==
  Line("define", "-", <<"F">>,
       <<"#","d","e","f","i","n","e"," ","F","(","x",",","y",")"," ","x","+","y","\n">>)

\* #define F A
DefFObject ==
  Line("define", "-", <<"F">>,
       <<"#","d","e","f","i","n","e"," ","F"," ","A","\n">>)

\* #undef F
UndefF ==
  Line("undef", "-", <<"F">>,
       <<"#","u","n","d","e","f"," ","F","\n">>)

\* F(y, A)
CallF ==
  Line("text", "-", <<"F">>,
       <<"F","(","y",","," ","A",")","\n">>)

\* F( , 1)
CallFBlank ==
  Line("text", "-", <<"F">>,
       <<"F","("," ",","," ","1",")","\n">>)
\* F;
UseF ==
  Line("text", "-", <<"F">>,
       <<"F",";","\n">>)

\* #if defined(A)
IfDefinedA ==
  Line("if", "dyn", <<"A">>,
       <<"#","i","f"," ","d","e","f","i","n","e","d","(","A",")","\n">>)

\* #if defined(F)
IfDefinedF ==
  Line("if", "dyn", <<"F">>,
       <<"#","i","f"," ","d","e","f","i","n","e","d","(","F",")","\n">>)

\* #if A
IfA ==
  Line("if", "dyn", <<"A">>,
       <<"#","i","f"," ","A","\n">>)

\* #define ADD(x, y) ((x) + (y))
DefAdd ==
  Line("define", "-", <<"A","D","D">>,
       <<"#","d","e","f","i","n","e"," ","A","D","D","(","x",","," ","y",")"," ","(","(","x",")"," ","+"," ","(","y",")",")","\n">>)

\* int sum = ADD(a + 1, b * 2);
CallAdd ==
  Line("text", "-", <<"A","D","D">>,
       <<"i","n","t"," ","s","u","m"," ","="," ","A","D","D","(","a"," ","+"," ","1",","," ","b"," ","*"," ","2",")",";","\n">>)

\* ADD((1,2) , ADD(3,4)) ADD
CallAddNested ==
  Line("text", "-", <<"A","D","D">>,
       <<"A","D","D","(","(","1",",","2",")"," ",","," ","A","D","D","(","3",",","4",")",")"," ","A","D","D","\n">>)

\* #define DOUBLE(x) ((x) * 2)
DefDouble ==
  Line("define", "-", <<"D","O","U","B","L","E">>,
       <<"#","d","e","f","i","n","e"," ","D","O","U","B","L","E","(","x",")"," ","(","(","x",")"," ","*"," ","2",")","\n">>)

\* #define TRIPLE(x) ((x) * 3)
DefTriple ==
  Line("define", "-", <<"T","R","I","P","L","E">>,
       <<"#","d","e","f","i","n","e"," ","T","R","I","P","L","E","(","x",")"," ","(","(","x",")"," ","*"," ","3",")","\n">>)

\* DOUBLE(TRIPLE(5));
CallDouble ==
  Line("text", "-", <<"D","O","U","B","L","E">>,
       <<"D","O","U","B","L","E","(","T","R","I","P","L","E","(","5",")",")",";","\n">>)

\* F /* no call */ + A // F(
UseFComment ==
  Line("text", "-", <<"F">>,
       <<"F"," ","/","*"," ","n","o"," ","c","a","l","l"," ","*","/"," ","+"," ","A"," ","/","/"," ","F","(","\n">>)

\* #include "h"
IncludeOk ==
  Line("include", "-", <<>>,
       <<"#","i","n","c","l","u","d","e"," ","\"","h","\"","\n">>)

\* #include <h>
IncludeBad ==
  Line("include", "-", <<>>,
       <<"#","i","n","c","l","u","d","e"," ","<","h",">","\n">>)

\* #pragma once
Pragma ==
  Line("other", "-", <<>>,
       <<"#","p","r","a","g","m","a"," ","o","n","c","e","\n">>)

\* #define 1
DefBad ==
  Line("define", "-", <<>>,
       <<"#","d","e","f","i","n","e"," ","1","\n">>)

\* #undef (
UndefBad ==
  Line("undef", "-", <<>>,
       <<"#","u","n","d","e","f"," ","(","\n">>)

\* #define F(x, 1) x
DefFBadParam ==
  Line("define", "-", <<"F">>,
       <<"#","d","e","f","i","n","e"," ","F","(","x",","," ","1",")"," ","x","\n">>)

\*   A  
TrailingBlank ==
  Line("text", "-", <<>>,
       <<" "," ","A"," "," ">>)

\* A /* B       (the comment never ends)
OpenComment ==
  Line("open", "-", <<"A">>,
       <<"A"," ","/","*"," ","B","\n">>)

\* "B           (the string never ends)
OpenString ==
  Line("open", "-", <<>>,
       <<"\"","B","\n">>)

\* F(A,         (the call never ends)
OpenCall ==
  Line("open", "-", <<"F">>,
       <<"F","(","A",",","\n">>)

\* F(1)
CallFOne ==
  Line("text", "-", <<"F">>,
       <<"F","(","1",")","\n">>)

\* F(1,2,3)
CallFThree ==
  Line("text", "-", <<"F">>,
       <<"F","(","1",",","2",",","3",")","\n">>)

\* F()
CallFNone ==
  Line("text", "-", <<"F">>,
       <<"F","(",")","\n">>)

\* F(y)
CallFParam ==
  Line("text", "-", <<"F">>,
       <<"F","(","y",")","\n">>)

\* F(y, A, B)
CallFParamThree ==
  Line("text", "-", <<"F">>,
       <<"F","(","y",","," ","A",","," ","B",")","\n">>)

\* DOUBLE(1, 2)
CallDoubleTwo ==
  Line("text", "-", <<"D","O","U","B","L","E">>,
       <<"D","O","U","B","L","E","(","1",","," ","2",")","\n">>)

\* F(y,1)
CallFSwap ==
  Line("text", "-", <<"F">>,
       <<"F","(","y",",","1",")","\n">>)

\* F(xx,1)
CallFSame ==
  Line("text", "-", <<"F">>,
       <<"F","(","x","x",",","1",")","\n">>)

\* #if
IfEmpty ==
  Line("if", "dyn", <<>>,
       <<"#","i","f","\n">>)

\* #if       (blanks and a tab)
IfBlank ==
  Line("if", "dyn", <<>>,
       <<"#","i","f"," ","\t"," ","\n">>)

\* #if defined()
IfDefinedNone ==
  Line("if", "dyn", <<>>,
       <<"#","i","f"," ","d","e","f","i","n","e","d","(",")","\n">>)

\* #if defined(
IfDefinedOpen ==
  Line("if", "dyn", <<>>,
       <<"#","i","f"," ","d","e","f","i","n","e","d","(","\n">>)

\* #if A + 1
IfSum ==
  Line("if", "dyn", <<"A">>,
       <<"#","i","f"," ","A"," ","+"," ","1","\n">>)

\* #if -A
IfMinusA ==
  Line("if", "dyn", <<"A">>,
       <<"#","i","f"," ","-","A","\n">>)

\* #if 1A
IfOneA ==
  Line("if", "dyn", <<>>,
       <<"#","i","f"," ","1","A","\n">>)

\* A @ B
UseAt ==
  Line("text", "-", <<"A">>,
       <<"A"," ","@"," ","B","\n">>)

\* A\B 'A'
UseQuote ==
  Line("text", "-", <<"A">>,
       <<"A","\\","B"," ","'","A","'","\n">>)

\* #ifdef A
Ifdef ==
  Line("other", "-", <<>>,
       <<"#","i","f","d","e","f"," ","A","\n">>)

\* a # that is the last token of its line
LoneHash ==
  Line("other", "-", <<>>,
       <<"#","\n">>)

\* #if 0x10
IfHex ==
  Line("if", "dyn", <<>>,
       <<"#","i","f"," ","0","x","1","0","\n">>)
\* #if 0x0
IfHexZero ==
  Line("if", "dyn", <<>>,
       <<"#","i","f"," ","0","x","0","\n">>)
\* #if B
IfB ==
  Line("if", "dyn", <<"B">>,
       <<"#","i","f"," ","B","\n">>)

(***************************************************************************)
(* Integer conditions: #if with a decimal literal, and #if A with A         *)
(* defined as the literal.  The literals are a sign, leading zeros and a   *)
(* run of 9s, and the values around the ends of the range of int.          *)
(***************************************************************************)
MaxLeadingZeros == 1
MaxNines == 10

Repeat(c, n) == [i \in 1..n |-> c]

IntLimits ==
  { <<"1">>, <<"1","0">>, <<"-","1">>, <<"-">>,
    <<"2","1","4","7","4","8","3","6","4","7">>,
    <<"2","1","4","7","4","8","3","6","4","8">>,
    <<"-","2","1","4","7","4","8","3","6","4","8">>,
    <<"-","2","1","4","7","4","8","3","6","4","9">> }

Literals ==
  ({sign \o Repeat("0", z) \o Repeat("9", n) :
      sign \in {<<>>, <<"-">>}, z \in 0..MaxLeadingZeros, n \in 0..MaxNines}
   \ {<<>>})
  \cup IntLimits

IfLiteral(text) ==
  Line("if", "dyn", <<>>, <<"#","i","f"," ">> \o text \o <<"\n">>)

DefALiteral(text) ==
  Line("define", "-", <<"A">>,
       <<"#","d","e","f","i","n","e"," ","A"," ">> \o text \o <<"\n">>)

NumberPrograms ==
  {<<IfLiteral(l), UseA, Endif>> : l \in Literals}
  \cup {<<DefALiteral(l), IfA, UseA, Endif>> : l \in Literals}
  \cup {<<DefA, DefB, IfB, UseA, Endif>>,
        <<IfHex, UseA, Else, UseB, Endif>>,
        <<IfHexZero, UseA, Else, UseB, Endif>>}

\* conditions that are no defined(NAME), no integer and no macro name
OddConditions == {IfEmpty, IfBlank, IfDefinedNone, IfDefinedOpen, IfSum, IfMinusA, IfOneA}

OddPrograms ==
  {<<c, UseA, Else, UseB, Endif>> : c \in OddConditions}
  \cup {<<DefA, c, UseA, Else, UseB, Endif>> : c \in OddConditions}
  \cup {<<IfTrue, c, DefA, Endif, UseA, Endif>> : c \in OddConditions}

CondLines == {IfTrue, IfFalse, Else, Endif, UseA, DefA, UndefA}

MacroLines == {DefA, DefAEmpty, UndefA, UseA, DefF, DefFObject, UndefF, CallF, UseF,
               IfDefinedA, IfDefinedF, IfA}

Scenarios ==
  { <<IfTrue, UseA, Else, UseB, Endif>>,
    <<IfFalse, UseA, Else, UseB, Endif>>,
    <<IfFalse, UseA, Endif, UseB, IfTrue, UseA, Else, UseB, Endif, UseA>>,
    <<IfTrue, IfTrue, DefA, Endif, Endif, UseA>>,
    <<IfTrue, DefA, Else, UndefA, Endif, UseA>>,
    <<IfTrue, Else, DefA, Endif, UseA>>,
    <<IfFalse, IfTrue, UseA, Else, UseB, Endif, Else, DefA, Endif, UseA>>,
    <<DefA, IfA, IfA, UseA, Else, UseB, Endif, Else, UseB, Endif>>,
    <<DefA, IfA, DefB, Endif, UseB>>,
    <<DefAdd, CallAdd>>,
    <<DefAdd, CallAddNested>>,
    <<DefDouble, DefTriple, CallDouble>>,
    <<DefA, DefB, UseB, UndefA, UseA>>,
    <<DefA, DefF, UseFComment>>,
    <<DefF, CallFBlank>>,
    <<DefF, DefFObject, UseF, CallF>>,
    <<DefFObject, DefF, UseF, CallF>>,
    <<IncludeOk, Pragma, UseA, IncludeBad, UseA>>,
    <<IfTrue, IncludeBad, Pragma, Endif>>,
    <<IfTrue, IncludeOk, DefBad, Endif>>,
    <<IfTrue, IfTrue, UndefBad, Endif, Endif>>,
    <<IfFalse, Else, DefFBadParam, Endif>>,
    <<DefA, DefBad, UseA>>,
    <<DefA, UndefBad, UseA>>,
    <<DefFBadParam, UseF>>,
    <<DefA, TrailingBlank>>,
    <<DefF, CallFOne, CallFThree>>,
    <<DefF, CallFNone, CallFParam>>,
    <<DefF, CallFParamThree>>,
    <<DefDouble, CallDoubleTwo>>,
    <<IfFalse, UseA, Else, UseB, IfFalse, UseA, Else, UseB, Endif, UseA, Endif>>,
    <<IfFalse, UseA, Else, UseB, IfTrue, UseA, Endif, UseA, Endif>>,
    <<IfTrue, IfFalse, UseA, Else, UseB, Endif, UseA, Endif, UseB>>,
    <<IfTrue, IfTrue, UseA, Else, UseB, Endif, UseA, Endif, UseB>>,
    <<DefF, CallFSwap, CallFSame>>,
    <<UseAt, UseQuote>>,
    <<DefA, IfA, UseAt, Else, UseQuote, Endif>>,
    <<DefA, Ifdef, UseA, Endif>>,
    <<LoneHash, UseA>>,
    <<UseA, OpenComment, UseB>>,
    <<OpenString, UseA>>,
    <<DefF, OpenCall, UseA>>,
    <<IfFalse, OpenComment, Else, UseA, Endif>>,
    <<IfFalse, UseA, Else, OpenString, Endif>>,
    <<IfTrue, DefF, OpenCall, Else, UseA>>,
    <<IfTrue, IfFalse, OpenComment, Endif>>,
    <<Else, IfFalse, Else, DefF, OpenCall>> }

MaxCondLines == 4
MaxMacroLines == 3

SeqsUpTo(S, n) == UNION {[1..k -> S] : k \in 0..n}

Programs ==
  Scenarios \cup SeqsUpTo(CondLines, MaxCondLines) \cup SeqsUpTo(MacroLines, MaxMacroLines)
  \cup NumberPrograms \cup OddPrograms

RECURSIVE Render(_)
Render(p) == IF p = <<>> THEN <<>> ELSE Head(p).text \o Render(Tail(p))

(***************************************************************************)
(* The specification                                                       *)
(***************************************************************************)
Init ==
  /\ prog \in Programs
  /\ buffer = Render(prog)
  /\ cursor = 0
  /\ macros = EmptyMap
  /\ functionMacros = EmptyMap
  /\ functionMacroReplacements = EmptyMap
  /\ lineoffset = <<0>>
  /\ result = <<>>
  /\ stack = <<>>
  /\ status = "running"
  /\ ev = [op |-> "init", name |-> <<>>, text |-> <<>>, flag |-> FALSE,
           pos |-> 0, depth |-> 0, cursor |-> 0]
  /\ emitted = {}
  /\ executed = {}

Next ==
  \/ Finish
  \/ ReturnAtEnd
  \/ HandleInclude
  \/ HandleDefine
  \/ HandleUndef
  \/ HandleIfWithExpansion
  \/ HandleElse
  \/ HandleEndif
  \/ OtherDirective
  \/ EmitNewline
  \/ ExpandFunctionMacroCall
  \/ ExpandObjectMacro
  \/ EmitToken

Spec == Init /\ [][Next]_vars

(***************************************************************************)
(* process(): the driver that handles the directives and emits nothing.    *)
(* One action is one iteration of its loop.                                *)
(***************************************************************************)
Processing == status = "processing"

\* a directive handler's outcome in process(); a throw ends the run
ProcessApply(o) ==
  /\ cursor' = o.cursor
  /\ lineoffset' = o.lineoffset
  /\ macros' = o.macros
  /\ functionMacros' = o.functionMacros
  /\ functionMacroReplacements' = o.functionMacroReplacements
  /\ status' = IF o.ok THEN "processing" ELSE "error"

ProcessAt(tk, dir, kind) ==
  /\ Processing
  /\ tk.kind = "Hash"
  /\ dir.kind = kind

skip_until_else_or_endif(buf, c, lines) == SkipBlock(buf, c, lines, 1, TRUE)

\* if (token.kind == TokenKind::T_EOF) break;
ProcessEndStep(tk) ==
  /\ Processing
  /\ tk.kind = "T_EOF"
  /\ cursor' = tk.cursor
  /\ status' = "processed"
  /\ ev' = Event("finish", cursor, <<>>, <<>>, FALSE)
  /\ UNCHANGED <<buffer, macros, functionMacros, functionMacroReplacements,
                 lineoffset, result, stack, prog, emitted, executed>>

ProcessEnd == ProcessEndStep(token)

\* a token that is not '#': read and dropped
ProcessTokenStep(tk) ==
  /\ Processing
  /\ tk.kind \notin {"T_EOF", "Hash"}
  /\ cursor' = tk.cursor
  /\ lineoffset' = addLine(lineoffset, buffer, tk)
  /\ ev' = Event("read", tk.begin, getTokenText(buffer, tk), <<>>, FALSE)
  /\ UNCHANGED <<buffer, macros, functionMacros, functionMacroReplacements,
                 result, stack, status, prog, emitted, executed>>

ProcessToken == ProcessTokenStep(token)

ProcessIncludeStep(tk, dir) ==
  /\ ProcessAt(tk, dir, "Include")
  /\ ProcessApply(handle_include(buffer, dir.cursor, lineoffset, macros,
                                 functionMacros, functionMacroReplacements))
  /\ ev' = Event("include", tk.begin, <<>>, <<>>, FALSE)
  /\ UNCHANGED <<buffer, result, stack, prog, emitted, executed>>

ProcessInclude == ProcessIncludeStep(token, directive)

ProcessDefineStep(tk, dir) ==
  /\ ProcessAt(tk, dir, "Define")
  /\ ProcessApply(handle_define(buffer, dir.cursor, lineoffset, macros,
                                functionMacros, functionMacroReplacements))
  /\ ev' = Event("define", tk.begin, NameAfter(dir), <<>>, FALSE)
  /\ executed' = executed \cup {tk.begin}
  /\ UNCHANGED <<buffer, result, stack, prog, emitted>>

ProcessDefine == ProcessDefineStep(token, directive)

ProcessUndefStep(tk, dir) ==
  /\ ProcessAt(tk, dir, "Undef")
  /\ ProcessApply(handle_undef(buffer, dir.cursor, lineoffset, macros,
                               functionMacros, functionMacroReplacements))
  /\ ev' = Event("undef", tk.begin, NameAfter(dir), <<>>, FALSE)
  /\ executed' = executed \cup {tk.begin}
  /\ UNCHANGED <<buffer, result, stack, prog, emitted>>

ProcessUndef == ProcessUndefStep(token, directive)

Skipped(s) ==
  /\ cursor' = s.cursor
  /\ lineoffset' = s.lines

\* handle_if
IfHandled(tk, condition, conditionResult) ==
  /\ ev' = Event("if", tk.begin, <<>>, condition.line, conditionResult)
  /\ IF conditionResult
     THEN cursor' = condition.cursor /\ UNCHANGED lineoffset
     ELSE Skipped(skip_until_else_or_endif(buffer, condition.cursor, lineoffset))

handle_if(tk, condition) ==
  IfHandled(tk, condition, evaluate_condition(condition.line, macros, functionMacros))

ProcessIfStep(tk, dir) ==
  /\ ProcessAt(tk, dir, "If")
  /\ handle_if(tk, read_line(buffer, dir.cursor))
  /\ UNCHANGED <<buffer, macros, functionMacros, functionMacroReplacements,
                 result, stack, status, prog, emitted, executed>>

ProcessIf == ProcessIfStep(token, directive)

\* handle_else
ProcessElseStep(tk, dir) ==
  /\ ProcessAt(tk, dir, "Else")
  /\ Skipped(skip_until_endif(buffer, dir.cursor, lineoffset))
  /\ ev' = Event("else", tk.begin, <<>>, <<>>, FALSE)
  /\ UNCHANGED <<buffer, macros, functionMacros, functionMacroReplacements,
                 result, stack, status, prog, emitted, executed>>

ProcessElse == ProcessElseStep(token, directive)

\* handle_endif
ProcessEndifStep(tk, dir) ==
  /\ ProcessAt(tk, dir, "Endif")
  /\ cursor' = dir.cursor
  /\ ev' = Event("endif", tk.begin, <<>>, <<>>, FALSE)
  /\ UNCHANGED <<buffer, macros, functionMacros, functionMacroReplacements,
                 lineoffset, result, stack, status, prog, emitted, executed>>

ProcessEndif == ProcessEndifStep(token, directive)

\* assert(0 && "unexpect kind"): the run is aborted, or goes on when the
\* build defines NDEBUG
ProcessUnknownStep(tk, dir) ==
  /\ Processing
  /\ tk.kind = "Hash"
  /\ dir.kind \notin DirectiveKinds
  /\ cursor' = dir.cursor
  /\ lineoffset' = addLine(lineoffset, buffer, dir)
  /\ status' \in {"aborted", "processing"}
  /\ ev' = Event("other", tk.begin, <<>>, <<>>, FALSE)
  /\ UNCHANGED <<buffer, macros, functionMacros, functionMacroReplacements,
                 result, stack, prog, emitted, executed>>

ProcessUnknownDirective == ProcessUnknownStep(token, directive)

ProcessLines ==
  {IfTrue, IfFalse, Else, Endif, UseA, DefA, DefF, UndefA, IncludeOk, IncludeBad,
   DefBad, UndefBad, DefFBadParam, Pragma}

MaxProcessLines == 3

ProcessPrograms == Scenarios \cup SeqsUpTo(ProcessLines, MaxProcessLines)

ProcessInit ==
  /\ prog \in ProcessPrograms
  /\ buffer = Render(prog)
  /\ cursor = 0
  /\ macros = EmptyMap
  /\ functionMacros = EmptyMap
  /\ functionMacroReplacements = EmptyMap
  /\ lineoffset = <<0>>
  /\ result = <<>>
  /\ stack = <<>>
  /\ status = "processing"
  /\ ev = [op |-> "init", name |-> <<>>, text |-> <<>>, flag |-> FALSE,
           pos |-> 0, depth |-> 0, cursor |-> 0]
  /\ emitted = {}
  /\ executed = {}

ProcessNext ==
  \/ ProcessEnd
  \/ ProcessToken
  \/ ProcessInclude
  \/ ProcessDefine
  \/ ProcessUndef
  \/ ProcessIf
  \/ ProcessElse
  \/ ProcessEndif
  \/ ProcessUnknownDirective

ProcessSpec == ProcessInit /\ [][ProcessNext]_vars

(***************************************************************************)
(* The lexer on its own: a caller that calls next() again and again and    *)
(* keeps the tokens it gets (result), as the tokenization tests do; it     *)
(* goes on calling after the end-of-input token.                           *)
(***************************************************************************)
Lexing == status = "lexing"

MaxEofCalls == 3

EofCalls == Cardinality({i \in 1..Len(result) : result[i].kind = "T_EOF"})

\* token = pp.next()
NextCalled(tk) ==
  /\ Lexing
  /\ EofCalls < MaxEofCalls
  /\ cursor' = tk.cursor
  /\ lineoffset' = addLine(lineoffset, buffer, tk)
  /\ result' = Append(result, tk)
  /\ ev' = [op |-> "next", name |-> getTokenText(buffer, tk), text |-> <<>>,
            flag |-> FALSE, pos |-> tk.begin, depth |-> 0, cursor |-> cursor]
  /\ UNCHANGED <<buffer, macros, functionMacros, functionMacroReplacements,
                 stack, status, prog, emitted, executed>>

CallNext == NextCalled(token)

\* the numeric literals of the pp-number tests
NumericLiterals ==
  { <<"1","2","3">>, <<"0">>, <<"0","7","7","7">>,
    <<"3",".","1","4","1","5","9">>, <<".","5">>, <<"0",".","0">>,
    <<"1","e","1","0">>, <<"2",".","5","e","-","3">>, <<"1","E","+","5">>,
    <<"0","x","F","F">>, <<"0","x","1",".","5","p","+","3">>,
    <<"1","2","3","L">>, <<"4","5","6","U","L">>, <<"3",".","1","4","f">> }

\* the pieces the other buffers are made of
Pieces ==
  { <<"a">>, <<"1">>, <<"+">>, <<"=">>, <<".">>, <<".",".",".">>, <<" ">>, <<"\n">>,
    <<"\"">>, <<"\\">>, <<"/","*">>, <<"<">>, <<"-">>, <<">">> }

MaxPieces == 3

RECURSIVE Concat(_)
Concat(ws) == IF ws = <<>> THEN <<>> ELSE Head(ws) \o Concat(Tail(ws))

LexBuffers == NumericLiterals \cup {Concat(ws) : ws \in SeqsUpTo(Pieces, MaxPieces)}

LexInit ==
  /\ buffer \in LexBuffers
  /\ prog = <<>>
  /\ cursor = 0
  /\ macros = EmptyMap
  /\ functionMacros = EmptyMap
  /\ functionMacroReplacements = EmptyMap
  /\ lineoffset = <<0>>
  /\ result = <<>>
  /\ stack = <<>>
  /\ status = "lexing"
  /\ ev = [op |-> "init", name |-> <<>>, text |-> <<>>, flag |-> FALSE,
           pos |-> 0, depth |-> 0, cursor |-> 0]
  /\ emitted = {}
  /\ executed = {}

LexNext == CallNext

LexSpec == LexInit /\ [][LexNext]_vars

(***************************************************************************)
(* What the conditional directives of a program select, read off the       *)
(* program's lines: the reference the properties compare the run with.     *)
(* Ctx(p, i) is the stack of the conditional blocks that are open after    *)
(* line i; each block records whether the text around it is selected,      *)
(* whether its condition is true and whether its #else has been passed.    *)
(***************************************************************************)
Block(parent, cond) == [parent |-> parent, cond |-> cond, inElse |-> FALSE]

Selected(ctx) ==
  ctx = <<>> \/ (ctx[Len(ctx)].parent /\ (ctx[Len(ctx)].cond # ctx[Len(ctx)].inElse))

CtxStep(ctx, l) ==
  IF l.kind = "if" THEN Append(ctx, Block(Selected(ctx), l.cond = "T"))
  ELSE IF l.kind = "else" /\ ctx # <<>> THEN [ctx EXCEPT ![Len(ctx)].inElse = TRUE]
  ELSE IF l.kind = "endif" /\ ctx # <<>> THEN SubSeq(ctx, 1, Len(ctx) - 1)
  ELSE ctx

RECURSIVE Ctx(_, _)
Ctx(p, i) == IF i = 0 THEN <<>> ELSE CtxStep(Ctx(p, i - 1), p[i])

\* every #else and #endif has its #if, no block has two #else, all blocks end
WellNested(p) ==
  /\ \A i \in 1..Len(p) :
       /\ p[i].kind = "else" =>
            Ctx(p, i - 1) # <<>> /\ ~Ctx(p, i - 1)[Len(Ctx(p, i - 1))].inElse
       /\ p[i].kind = "endif" => Ctx(p, i - 1) # <<>>
  /\ Ctx(p, Len(p)) = <<>>

\* the conditions are the literals 0 and 1, the other lines text, #define, #undef
Literal(p) ==
  \A i \in 1..Len(p) :
    /\ p[i].kind \in {"if", "else", "endif", "text", "define", "undef"}
    /\ p[i].kind = "if" => p[i].cond \in {"T", "F"}
    /\ p[i].kind \in {"define", "undef"} => p[i].name # <<>>

Structured(p) == WellNested(p) /\ Literal(p)

\* line i lies in text that the conditionals select
Live(p, i) == Selected(Ctx(p, i - 1))
Depth(p, i) == Len(Ctx(p, i - 1))

\* the offsets of line i in the buffer
LineStart(p, i) == Len(Render(SubSeq(p, 1, i - 1)))
InLine(p, i, pos) == LineStart(p, i) <= pos /\ pos < LineStart(p, i + 1)

\* the driver has emitted a token of line i / executed the directive of line i
LineEmitted(i) == \E pos \in emitted : InLine(prog, i, pos)
LineExecuted(i) == \E pos \in executed : InLine(prog, i, pos)

\* the #else and the #endif of the #if of line i (0: none)
ElseOf(p, i) ==
  LET js == {j \in (i + 1)..Len(p) : p[j].kind = "else" /\ Depth(p, j) = Depth(p, i) + 1}
      ks == {k \in (i + 1)..Len(p) : p[k].kind = "endif" /\ Depth(p, k) = Depth(p, i) + 1}
      k == IF ks = {} THEN Len(p) + 1 ELSE CHOOSE x \in ks : \A y \in ks : x <= y
  IN  IF \E j \in js : j < k THEN CHOOSE j \in js : j < k ELSE 0

EndifOf(p, i) ==
  LET ks == {k \in (i + 1)..Len(p) : p[k].kind = "endif" /\ Depth(p, k) = Depth(p, i) + 1}
  IN  IF ks = {} THEN 0 ELSE CHOOSE x \in ks : \A y \in ks : x <= y

Done == status = "done"

(***************************************************************************)
(* Conditional blocks.                                                     *)
(***************************************************************************)

\* C1: of a block #if C / A / #else / B / #endif that the run reaches, the
\* tokens of exactly the selected branch are emitted: A's and none of B's
\* when C is true, B's and none of A's when C is false.
OneBranchEmitted ==
  Done /\ Structured(prog) =>
    \A i \in 1..Len(prog) :
      prog[i].kind = "if" /\ Live(prog, i) /\ ElseOf(prog, i) # 0 =>
        \A l \in (i + 1)..(EndifOf(prog, i) - 1) :
          prog[l].kind = "text" => (LineEmitted(l) <=> Live(prog, l))

\* #if 1 / A / #else / B / #endif: both A and B are emitted
BothBranchesEmitted ==
  /\ Done
  /\ prog = <<IfTrue, UseA, Else, UseB, Endif>>
  /\ LineEmitted(2) /\ LineEmitted(4)

\* C2: after a false #if without #else, skipping stops at its #endif: every
\* text line after that #endif that is outside all conditional blocks is
\* emitted, whatever follows it.
SkipStopsAtMatchingEndif ==
  Done /\ Structured(prog) =>
    \A i \in 1..Len(prog) :
      prog[i].kind = "if" /\ prog[i].cond = "F" /\ Live(prog, i) /\ ElseOf(prog, i) = 0 =>
        \A l \in (EndifOf(prog, i) + 1)..Len(prog) :
          prog[l].kind = "text" /\ Depth(prog, l) = 0 => LineEmitted(l)

\* #if 0 / A / #endif / B / #if 1 / A / #else / B / #endif / A: the B of
\* line 4 is lost
TextAfterEndifLost ==
  /\ Done
  /\ prog = <<IfFalse, UseA, Endif, UseB, IfTrue, UseA, Else, UseB, Endif, UseA>>
  /\ ~LineEmitted(4)

\* the last #define or #undef of a name in selected text before line l (0: none)
LastDirective(p, name, l) ==
  LET ds == {i \in 1..(l - 1) : /\ p[i].kind \in {"define", "undef"}
                                /\ p[i].name = name
                                /\ Live(p, i)}
  IN  IF ds = {} THEN 0 ELSE CHOOSE i \in ds : \A j \in ds : j <= i

InBranch(p, i) == i # 0 /\ Depth(p, i) > 0

\* C3: a #define or #undef in a taken branch stays in effect after the block:
\* a later identifier in selected text whose last directive is a #define in
\* a taken branch is expanded, one whose last directive is an #undef in a
\* taken branch is not, and at the end of the run the macro table agrees.
TakenBranchDirectiveStays ==
  Structured(prog) =>
    /\ \A l \in 1..Len(prog) :
         /\ prog[l].kind = "text" /\ Live(prog, l)
         /\ ev.op \in {"token", "object", "call"} /\ InLine(prog, l, ev.pos)
         /\ InBranch(prog, LastDirective(prog, ev.name, l))
         => (prog[LastDirective(prog, ev.name, l)].kind = "define" <=> ev.op # "token")
    /\ Done =>
         \A i \in 1..Len(prog) :
           /\ prog[i].kind \in {"define", "undef"} /\ Live(prog, i)
           /\ InBranch(prog, i)
           /\ LastDirective(prog, prog[i].name, Len(prog) + 1) = i
           => (prog[i].kind = "define" <=> IsDefined(macros, functionMacros, prog[i].name))

\* #if 1 / #define A 1 / #else / #undef A / #endif / A: A is emitted literally
DefineInTakenBranchLost ==
  /\ prog = <<IfTrue, DefA, Else, UndefA, Endif, UseA>>
  /\ ev.op = "token" /\ ev.name = <<"A">> /\ InLine(prog, 6, ev.pos)

\* C4: a #define or #undef in a branch that is not selected is never executed
UnselectedDirectiveNotExecuted ==
  Structured(prog) =>
    \A i \in 1..Len(prog) :
      prog[i].kind \in {"define", "undef"} /\ LineExecuted(i) => Live(prog, i)

\* #if 1 / #else / #define A 1 / #endif / A: the #define of the #else branch
\* has run
ElseBranchDefineExecuted ==
  /\ prog = <<IfTrue, Else, DefA, Endif, UseA>>
  /\ LineExecuted(3) /\ Has(macros, <<"A">>)

(***************************************************************************)
(* Macro expansion.                                                        *)
(***************************************************************************)
IdentText(t) == t # <<>> /\ isalpha(t[1])
Literally(name) == {name, name \o <<" ">>}

\* the line of the last #define or #undef of a name that has run (0: none)
CurrentDefinition(name) ==
  LET ds == {i \in 1..Len(prog) : /\ prog[i].kind \in {"define", "undef"}
                                  /\ prog[i].name = name
                                  /\ LineExecuted(i)}
  IN  IF ds = {} THEN 0 ELSE CHOOSE i \in ds : \A j \in ds : j <= i

\* "#define NAME(" defines a function macro, any other #define an object macro
FunctionLike(l) == l.kind = "define" /\ l.text[9 + Len(l.name)] = "("
ObjectLike(l) == l.kind = "define" /\ l.text[9 + Len(l.name)] # "("

IsObjectMacro(name) ==
  CurrentDefinition(name) # 0 /\ ObjectLike(prog[CurrentDefinition(name)])
IsFunctionMacro(name) ==
  CurrentDefinition(name) # 0 /\ FunctionLike(prog[CurrentDefinition(name)])

\* C5: an identifier the driver reads that names a currently defined object
\* macro is replaced by the macro's stored body; an identifier that names
\* no macro is emitted unchanged.
ObjectMacroReplaced ==
  /\ ev.op \in {"token", "call", "object"} /\ IsObjectMacro(ev.name)
     => ev.op = "object" /\ ev.text = macros[ev.name]
  /\ ev.op = "token" /\ IdentText(ev.name)
     /\ ~IsDefined(macros, functionMacros, ev.name)
     => ev.text \in Literally(ev.name)

\* #define F(x,y) x+y / #define F A / F(y, A): F, now an object macro, is
\* expanded as a call
ObjectMacroExpandedAsCall ==
  /\ prog = <<DefF, DefFObject, UseF, CallF>>
  /\ ev.op = "call" /\ IsObjectMacro(ev.name)
  /\ macros[ev.name] = <<"A">>

\* the arguments of a call, split at the commas of parenthesis depth 0
RECURSIVE Split(_, _, _, _, _)
Split(buf, i, depth, arg, args) ==
  IF i >= Len(buf) THEN [closed |-> FALSE, args |-> args]
  ELSE IF At(buf, i) = "(" THEN Split(buf, i + 1, depth + 1, Append(arg, "("), args)
  ELSE IF At(buf, i) = ")" /\ depth = 0 THEN [closed |-> TRUE, args |-> Append(args, arg)]
  ELSE IF At(buf, i) = ")" THEN Split(buf, i + 1, depth - 1, Append(arg, ")"), args)
  ELSE IF At(buf, i) = "," /\ depth = 0 THEN Split(buf, i + 1, depth, <<>>, Append(args, arg))
  ELSE Split(buf, i + 1, depth, Append(arg, At(buf, i)), args)

\* an argument without its leading and trailing whitespace
RECURSIVE Trimmed(_)
Trimmed(t) ==
  IF t = <<>> THEN t
  ELSE IF isspace(t[1]) THEN Trimmed(Tail(t))
  ELSE IF isspace(t[Len(t)]) THEN Trimmed(SubSeq(t, 1, Len(t) - 1))
  ELSE t

StartsAt(body, i, word) ==
  i + Len(word) - 1 <= Len(body) /\ SubSeq(body, i, i + Len(word) - 1) = word

\* the body with every parameter replaced by its argument, the arguments
\* themselves left as they are
RECURSIVE Substituted(_, _, _, _)
Substituted(body, params, args, i) ==
  IF i > Len(body) THEN <<>>
  ELSE IF \E k \in 1..Len(params) : StartsAt(body, i, params[k])
  THEN LET k == CHOOSE k \in 1..Len(params) : StartsAt(body, i, params[k])
       IN  Trimmed(args[k]) \o Substituted(body, params, args, i + Len(params[k]))
  ELSE <<body[i]>> \o Substituted(body, params, args, i + 1)

CallArguments ==
  Split(buffer, skip_whitespace_and_comments(buffer, ev.pos + Len(ev.name)) + 1,
        0, <<>>, <<>>)

\* C6: a call's arguments are split at the commas of depth 0 up to the first
\* ) of depth 0, and each is substituted trimmed of its surrounding
\* whitespace and otherwise unchanged.
ArgumentsSubstitutedUnchanged ==
  /\ ev.op = "call" /\ Has(functionMacros, ev.name)
  /\ CallArguments.closed
  /\ Len(CallArguments.args) = Len(functionMacros[ev.name])
  => ev.text = Substituted(functionMacroReplacements[ev.name],
                           functionMacros[ev.name], CallArguments.args, 1)

\* #define F(x,y) x+y / F(y, A) gives A+A: the y of the first argument has
\* been replaced as if it were the parameter
ArgumentTextReplaced ==
  /\ ev.op = "call" /\ ev.name = <<"F">>
  /\ CallArguments.args = << <<"y">>, <<" ", "A">> >>
  /\ ev.text = <<" ", "A", "+", "A">>

\* a macro map with the entry of one name only
Only(map, name) == [n \in {name} |-> map[name]]

OneLevelStep ==
  /\ ev'.op = "object" => result' = result \o macros[ev'.name]
  /\ ev'.op = "call" =>
       /\ result' = result \o ev'.text
       /\ ev'.text = expandFunctionMacro(
                        buffer, skip_whitespace_and_comments(buffer, ev'.pos + Len(ev'.name)),
                        Only(functionMacros, ev'.name),
                        Only(functionMacroReplacements, ev'.name), ev'.name).text
  /\ ev'.op = "call" /\ ev'.name = DefDouble.name /\ prog = <<DefDouble, DefTriple, CallDouble>>
     => ev'.text = <<" ","(","(","T","R","I","P","L","E","(","5",")",")"," ","*"," ","2",")">>
  /\ ev'.op \in {"object", "call"} => /\ cursor' > cursor
                                     /\ buffer' = buffer
                                     /\ macros' = macros
                                     /\ functionMacros' = functionMacros

\* C7: expansion is one level only: an object macro adds exactly its stored
\* body to the output and a call exactly its substituted body, which no
\* other macro of the table influences, so a macro name in a body or an
\* argument stays as it is: DOUBLE(TRIPLE(5)) gives ((TRIPLE(5)) * 2).
OneLevelOnly == [][OneLevelStep]_vars

\* B, whose body A names a macro, has been expanded to A
MacroNameInBodyEmitted ==
  /\ ev.op = "object" /\ ev.name = <<"B">> /\ ev.text = <<"A">>
  /\ Has(macros, <<"A">>)
  /\ result = <<"\n", "\n", "A">>

\* C8: an identifier that names a function macro and is not followed by ( is
\* emitted literally, and the cursor is back right after the identifier.
FunctionNameWithoutCallLiteral ==
  ev.op \in {"token", "object"} /\ IsFunctionMacro(ev.name) =>
    /\ ev.op = "token"
    /\ ev.text \in Literally(ev.name)
    /\ cursor = ev.pos + Len(ev.name)

\* #define F A / #define F(x,y) x+y / F; : F, now a function macro, is
\* replaced by the body of the object macro it was
FunctionNameExpandedAsObject ==
  /\ prog = <<DefFObject, DefF, UseF, CallF>>
  /\ ev.op = "object" /\ IsFunctionMacro(ev.name)
  /\ ev.text = <<"A">>

(***************************************************************************)
(* #undef and defined().                                                   *)
(***************************************************************************)
\* the names the program's lines mention
Names == {prog[i].name : i \in 1..Len(prog)} \ {<<>>}

Undefined(name) == ~Has(macros, name) /\ ~Has(functionMacros, name)

\* the condition of the #if just evaluated, without its surrounding blanks
Condition == Trimmed(ev.text)

UndefState ==
  /\ ev.op = "undef" /\ status # "error" => Undefined(ev.name)
  /\ ev.op \in {"object", "call"} => ~Undefined(ev.name)
  /\ ev.op = "token" /\ IdentText(ev.name) /\ Undefined(ev.name)
     => ev.text \in Literally(ev.name)
  /\ \A name \in Names :
       /\ ev.op = "if" /\ Undefined(name)
       /\ Condition \in {name, Defined \o name \o <<")">>}
       => ~ev.flag

UndefFrame ==
  ev'.op = "undef" /\ IdentText(ev'.name) =>
    /\ status' = "running"
    /\ Undefined(ev'.name) => /\ macros' = macros
                              /\ functionMacros' = functionMacros
                              /\ functionMacroReplacements' = functionMacroReplacements

\* C9: after #undef NAME, NAME is in neither macro map; while it is in
\* neither, a use of NAME is emitted literally and #if NAME and
\* #if defined(NAME) are false; #undef of a name that is not defined raises
\* no error and leaves the macro table unchanged.
UndefRemoves == []UndefState /\ [][UndefFrame]_vars

\* #define F(x,y) x+y / #undef F / F(y, A): F is emitted literally
UndefinedFunctionMacroLiteral ==
  /\ prog = <<DefF, UndefF, CallF>>
  /\ LineExecuted(2)
  /\ ev.op = "token" /\ ev.name = <<"F">> /\ ev.text = <<"F">>
  /\ Undefined(<<"F">>)

\* C10: #if defined(NAME) is true exactly if NAME is in the object macro map
\* or in the function macro map at that point of the run.
DefinedIffInEitherMap ==
  \A name \in Names :
    ev.op = "if" /\ Condition = Defined \o name \o <<")">>
    => (ev.flag <=> Has(macros, name) \/ Has(functionMacros, name))

\* #define A / #if defined(A): true, A's body being empty
DefinedWithEmptyBody ==
  /\ prog = <<DefAEmpty, IfDefinedA>>
  /\ ev.op = "if" /\ ev.flag
  /\ Has(macros, <<"A">>) /\ macros[<<"A">>] = <<>>

(***************************************************************************)
(* Condition values.                                                       *)
(***************************************************************************)
Digits(t) == IF t # <<>> /\ t[1] = "-" THEN Tail(t) ELSE t

\* a decimal integer literal with an optional leading -
DecimalLiteral(t) ==
  Digits(t) # <<>> /\ \A i \in 1..Len(Digits(t)) : isdigit(Digits(t)[i])

\* the integer a decimal literal denotes is not 0: one of its digits is not 0
DenotesNonZero(t) == \E i \in 1..Len(Digits(t)) : Digits(t)[i] # "0"

\* the literal the condition is, directly or as the body of the object macro
\* the condition names
ConditionLiteral ==
  IF DecimalLiteral(Condition) THEN Condition
  ELSE IF Has(macros, Condition) THEN macros[Condition]
  ELSE <<>>

\* C11: a condition that is a decimal literal, or the name of an object macro
\* whose body is one, is true exactly if the literal denotes a nonzero
\* integer, whatever its magnitude; the replacement is one level only, so a
\* body that is itself a macro name makes the condition false.
IntegerConditionNonZero ==
  /\ ev.op = "if" /\ DecimalLiteral(ConditionLiteral)
     => (ev.flag <=> DenotesNonZero(ConditionLiteral))
  /\ ev.op = "if" /\ Has(macros, Condition) /\ Has(macros, macros[Condition])
     => ~ev.flag

\* #if 2147483648 is false
LargeLiteralFalse ==
  /\ ev.op = "if" /\ ~ev.flag
  /\ Condition = <<"2","1","4","7","4","8","3","6","4","8">>

HexDigit == Digit \cup {"a", "b", "c", "d", "e", "f", "A", "B", "C", "D", "E", "F"}

\* a hexadecimal integer literal: 0x or 0X and hexadecimal digits
HexLiteral(t) ==
  /\ Len(t) > 2 /\ t[1] = "0" /\ t[2] \in {"x", "X"}
  /\ \A i \in 3..Len(t) : t[i] \in HexDigit

\* C12: an #if whose condition is a nonzero hexadecimal literal is true:
\* #if 0x10 / A / #else / B / #endif emits A and not B.
HexConditionTrue ==
  /\ ev.op = "if" /\ HexLiteral(Condition)
     => (ev.flag <=> \E i \in 3..Len(Condition) : Condition[i] # "0")
  /\ Done /\ prog = <<IfHex, UseA, Else, UseB, Endif>>
     => LineEmitted(2) /\ ~LineEmitted(4)

\* #if 0x10 / A / #else / B / #endif has emitted B and not A
HexConditionFalse ==
  /\ Done /\ prog = <<IfHex, UseA, Else, UseB, Endif>>
  /\ LineEmitted(4) /\ ~LineEmitted(2)

(***************************************************************************)
(* Malformed directives.                                                   *)
(***************************************************************************)
\* the parameter list that starts at c holds a token that is neither an
\* identifier nor a comma before its closing parenthesis
RECURSIVE BadParameter(_, _)
BadParameter(buf, t) ==
  IF t.kind \in {"T_EOF", "R_Paren"} THEN FALSE
  ELSE IF t.kind \notin {"Ident", "Comma"} THEN TRUE
  ELSE BadParameter(buf, next(buf, t.cursor))

MalformedDirective(buf, dir, after) ==
  \/ dir.kind = "Include" /\ after.kind # "StringLiteral"
  \/ dir.kind \in {"Define", "Undef"} /\ after.kind # "Ident"
  \/ /\ dir.kind = "Define" /\ after.kind = "Ident"
     /\ Is(buf, after.cursor, "(")
     /\ BadParameter(buf, next(buf, after.cursor + 1))

\* the directive whose '#' is at offset pos is malformed
MalformedAt(pos) ==
  MalformedDirective(buffer, next(buffer, pos + 1),
                     next(buffer, next(buffer, pos + 1).cursor))

\* C13: the run is aborted with an error whenever a directive that is
\* reached in emitted text, at top level or in a taken branch, is a #define
\* or #undef without a name, an #include without a string literal, or a
\* function macro with a parameter that is not an identifier.
MalformedDirectiveAborts ==
  ev.op \in {"define", "undef", "include"} /\ MalformedAt(ev.pos) => status = "error"

\* #if 1 / #include <h> / ... : the run goes on after the #include
MalformedIncludePassed ==
  /\ prog = <<IfTrue, IncludeBad, Pragma, Endif>>
  /\ ev.op = "include" /\ ev.flag /\ MalformedAt(ev.pos)
  /\ status = "running"

(***************************************************************************)
(* The lexer.                                                              *)
(***************************************************************************)

\* C14: next() on a buffer that holds exactly one numeric literal returns
\* one token of kind Number that spans the whole literal.
NumericLiteralOneToken ==
  Lexing /\ buffer \in NumericLiterals /\ Len(result) >= 1 =>
    /\ result[1].kind = "Number"
    /\ result[1].begin = 0 /\ result[1].len = Len(buffer)

\* 3.14159 gives the token 3, then . and 14159
DecimalSplit ==
  /\ Lexing /\ buffer = <<"3",".","1","4","1","5","9">>
  /\ Len(result) = 3
  /\ result[1].kind = "Number" /\ result[1].len = 1
  /\ result[2].kind = "Dot"
  /\ result[3].kind = "Number" /\ result[3].len = 5

EndOfInputStep ==
  Lexing /\ result # <<>> /\ result[Len(result)].kind = "T_EOF"
  /\ Len(result') = Len(result) + 1
  => /\ result'[Len(result')].kind = "T_EOF"
     /\ result'[Len(result')].len = 0
     /\ cursor' = cursor
     /\ lineoffset' = lineoffset

\* C15: once next() has returned the end-of-input token, every later call
\* returns an end-of-input token of length 0 and leaves the cursor and the
\* line index as they are.
EndOfInputStable == [][EndOfInputStep]_vars

\* next() has returned the end-of-input token three times, after a string
\* literal whose trailing backslash took the cursor past the end
EndOfInputRepeated ==
  /\ Lexing /\ EofCalls = 3
  /\ buffer = <<"a", "\"", "\\">>
  /\ cursor > Len(buffer)

\* the tokens of a buffer from offset c on, as kind and text, newline
\* markers left out
RECURSIVE Tokens(_, _)
Tokens(buf, t) ==
  IF t.kind = "T_EOF" THEN <<>>
  ELSE (IF IsNewline(buf, t) THEN <<>>
        ELSE << [kind |-> t.kind, text |-> getTokenText(buf, t)] >>)
       \o Tokens(buf, next(buf, t.cursor))

Tokenize(buf) == Tokens(buf, next(buf, 0))

\* the texts of the tokens with one space between them
RECURSIVE Joined(_)
Joined(ts) ==
  IF ts = <<>> THEN <<>>
  ELSE IF Len(ts) = 1 THEN ts[1].text
  ELSE ts[1].text \o <<" ">> \o Joined(Tail(ts))

\* C18: for a buffer without directives, tokenizing the token texts joined
\* with one space gives the same kinds and texts again.
RetokenizeStable ==
  Lexing /\ cursor = 0 /\ (\A i \in 1..Len(buffer) : buffer[i] # "#")
  => Tokenize(Joined(Tokenize(buffer))) = Tokenize(buffer)

\* "... " is an Ellipsis, the joined text "..." is three Dots
EllipsisNotStable ==
  /\ Lexing /\ buffer = <<".", ".", ".", " ">>
  /\ Len(result) = 1 /\ result[1].kind = "Ellipsis"
  /\ Tokenize(<<".", ".", ".">>)[1].kind = "Dot"

(***************************************************************************)
(* Every run: expandMacros() or process() on a buffer.  The drivers are    *)
(* loops of one thread: a run that has not ended takes its next step.      *)
(* Every action has status "running" or "processing" in its guard and      *)
(* changes the cursor, the stack or the status, so the steps of RunsNext   *)
(* are enabled exactly in the states that are not Ended, and Progresses is *)
(* weak fairness of RunsNext: the run ends again and again (and then stays *)
(* ended) or takes a step again and again.                                 *)
(***************************************************************************)
RunsInit == Init \/ ProcessInit
RunsNext == Next \/ ProcessNext

Ended == status \notin {"running", "processing"}

Progresses == []<>Ended \/ []<><<RunsNext>>_vars

Runs == RunsInit /\ [][RunsNext]_vars /\ Progresses

\* what is left to do: the characters to read, the activations to return
\* from, the loop to leave
Measure == 2 * (Len(buffer) - cursor) + Len(stack) + (IF Ended THEN 0 ELSE 1)

MeasureDecreases == Measure' < Measure /\ Measure' >= 0

\* an iteration of a driver loop moves the cursor forward or ends its loop:
\* the run ends, or the activation of processConditionalBlock returns
IterationAdvances ==
  \/ cursor' > cursor
  \/ status' # status
  \/ Len(stack') < Len(stack)

\* an iteration of a skip loop calls next() where cursor < buffer.size(),
\* and once more after a '#': the first call moves the cursor forward, no
\* call moves it back or past the end
ScansAdvance ==
  /\ \A c \in 0..(Len(buffer) - 1) :
       /\ next(buffer, c).cursor > c
       /\ next(buffer, c).cursor <= Len(buffer)
  /\ next(buffer, Len(buffer)).cursor = Len(buffer)

IfDirectives == {i \in 1..Len(prog) : prog[i].kind = "if"}

\* one activation of processConditionalBlock for each #if at most
DepthBounded == Len(stack) <= Cardinality(IfDirectives)

\* C16: expandMacros() and process() end on every buffer, the buffers with
\* an unterminated comment, string or macro call and with unmatched #if,
\* #else or #endif included: a step of a driver loop moves the cursor
\* forward or ends the loop, a step of a skip loop moves the cursor forward,
\* and there are at most as many nested activations as #if directives.
RunsTerminate ==
  /\ [][IterationAdvances /\ MeasureDecreases]_vars
  /\ [](ev.op = "init" => ScansAdvance)
  /\ []DepthBounded
  /\ <>Ended

\* a run on a buffer with an unterminated construct in an unmatched #if ended
UnterminatedRunEnded ==
  /\ status \in {"done", "processed"}
  /\ ~WellNested(prog)
  /\ \E i \in 1..Len(prog) : prog[i].kind = "open" /\ Depth(prog, i) > 0

(***************************************************************************)
(* Calls with more or fewer arguments than parameters                      *)
(***************************************************************************)
\* the arguments a call gives: the pieces between its commas, none for ()
Given == IF CallArguments.args = << <<>> >> THEN <<>> ELSE CallArguments.args

Min(a, b) == IF a <= b THEN a ELSE b
First(s, k) == SubSeq(s, 1, k)
Mentions(text, word) == \E i \in 1..Len(text) : StartsAt(text, i, word)

\* a call of a function macro whose arguments, none of them blank, are not
\* as many as its parameters
ArityMismatch ==
  /\ ev.op = "call"
  /\ Has(functionMacros, ev.name) /\ Has(functionMacroReplacements, ev.name)
  /\ CallArguments.closed
  /\ \A k \in 1..Len(Given) : Trimmed(Given[k]) # <<>>
  /\ Len(Given) # Len(functionMacros[ev.name])

\* the parameters that have an argument
Matched == Min(Len(Given), Len(functionMacros[ev.name]))

\* C17: a call with more arguments than parameters expands as the call
\* without the arguments in excess, and a call with fewer arguments expands
\* as the call of the macro without the parameters in excess, whose names
\* stay as they are in the body; where no argument holds the name of a
\* substituted parameter, that is the body with each of the first
\* parameters replaced by its argument.
MismatchedCallExpands ==
  ArityMismatch =>
    /\ ev.text = Substitute(functionMacroReplacements[ev.name],
                            First(functionMacros[ev.name], Matched),
                            First(Given, Matched), 1)
    /\ (\A k \in 1..Matched : \A j \in 1..Matched :
          ~Mentions(Given[k], functionMacros[ev.name][j]))
       => ev.text = Substituted(functionMacroReplacements[ev.name],
                                First(functionMacros[ev.name], Matched),
                                First(Given, Matched), 1)

\* #define F(x,y) x+y / F(1) has given 1+y
MissingArgumentKeepsName ==
  /\ ArityMismatch
  /\ Len(Given) < Len(functionMacros[ev.name])
  /\ ev.text = <<" ", "1", "+", "y">>

(***************************************************************************)
(* The #else of a nested block                                             *)
(***************************************************************************)
\* C19: for a false #if with an #else, the #else of a nested block is not
\* taken for the #else of the #if: when the nested block lies in the
\* skipped branch, nothing is emitted between the nested #else and the
\* #else of the #if, and when it lies in the else branch, the selected text
\* between the #else of the #if and the nested #else is emitted.
NestedElseNotPartner ==
  Done /\ Structured(prog) =>
    \A i \in 1..Len(prog) :
      prog[i].kind = "if" /\ prog[i].cond = "F" /\ Live(prog, i)
      /\ ElseOf(prog, i) # 0 =>
        \A n \in (i + 1)..(EndifOf(prog, i) - 1) :
          prog[n].kind = "if" /\ ElseOf(prog, n) # 0 =>
            IF n < ElseOf(prog, i)
            THEN \A l \in (ElseOf(prog, n) + 1)..(ElseOf(prog, i) - 1) :
                   prog[l].kind = "text" => ~LineEmitted(l)
            ELSE \A l \in (ElseOf(prog, i) + 1)..(ElseOf(prog, n) - 1) :
                   prog[l].kind = "text" /\ Live(prog, l) => LineEmitted(l)

\* #if 0 / A / #else / B / #if 0 / A / #else / B / #endif / A / #endif: the
\* B of line 4 is lost, emission starts after the nested #else of line 7
NestedElseTaken ==
  /\ Done
  /\ prog = <<IfFalse, UseA, Else, UseB, IfFalse, UseA, Else, UseB, Endif, UseA, Endif>>
  /\ ~LineEmitted(2) /\ ~LineEmitted(4) /\ ~LineEmitted(6)
  /\ LineEmitted(8) /\ LineEmitted(10)

(***************************************************************************)
(* The end of an activation                                                *)
(***************************************************************************)
LineOf(pos) == CHOOSE i \in 1..Len(prog) : InLine(prog, i, pos)

\* a step in which the running activation returns
Returns == Len(stack') < Len(stack)

\* the activation returns at an #endif, with depth 0, only at the #endif of
\* the #if that started it, and at an #else only at the #else of that #if
ReturnsAtOwnDirective ==
  Structured(prog) /\ Returns =>
    /\ ev'.op = "endif" =>
         LineOf(ev'.pos) = EndifOf(prog, LineOf(Top.start))
    /\ ev'.op = "else" =>
         LineOf(ev'.pos) = ElseOf(prog, LineOf(Top.start))

\* C20: on well-nested input an activation of processConditionalBlock is
\* ended by the #endif, or left at the #else, of the #if that started it,
\* never by the #endif or #else of a block nested in it.
ActivationEndsAtOwnEndif == [][ReturnsAtOwnDirective]_vars

\* #if 1 / #if 0 / A / #else / B / #endif / A / #endif / B: the #endif of
\* line 6 has ended the activation of the #if of line 1
InnerEndifEndsOuterActivation ==
  /\ prog = <<IfTrue, IfFalse, UseA, Else, UseB, Endif, UseA, Endif, UseB>>
  /\ ev.op = "endif" /\ ev.pos = LineStart(prog, 6)
  /\ ev.depth = 1 /\ stack = <<>>

(***************************************************************************)
(* Substitution into inserted text                                         *)
(***************************************************************************)
\* a call with as many arguments as parameters, none of them blank
FullCall ==
  /\ ev.op = "call"
  /\ Has(functionMacros, ev.name) /\ Has(functionMacroReplacements, ev.name)
  /\ CallArguments.closed
  /\ Len(CallArguments.args) = Len(functionMacros[ev.name])
  /\ \A k \in 1..Len(CallArguments.args) : Trimmed(CallArguments.args[k]) # <<>>

\* C21: the text that the substitution of a parameter inserts is not
\* substituted again: the expansion of a call is the body with each
\* parameter of the body replaced by its argument, the arguments as given.
InsertedTextNotSubstituted ==
  FullCall =>
    ev.text = Substituted(functionMacroReplacements[ev.name],
                          functionMacros[ev.name], CallArguments.args, 1)

\* #define F(x,y) x+y / F(y,1) has given 1+1
InsertedNameReplaced ==
  /\ FullCall
  /\ CallArguments.args = << <<"y">>, <<"1">> >>
  /\ ev.text = <<" ", "1", "+", "1">>

(***************************************************************************)
(* The two forms of a macro                                                *)
(***************************************************************************)
\* C22: no name is an object macro and a function macro at the same time.
OneFormOnly == DOMAIN macros \cap DOMAIN functionMacros = {}

\* #define F A / #define F(x,y) x+y: F is in both maps
NameInBothForms ==
  /\ Len(prog) >= 2 /\ prog[1] = DefFObject /\ prog[2] = DefF
  /\ executed = {LineStart(prog, 1), LineStart(prog, 2)}
  /\ Has(macros, <<"F">>) /\ macros[<<"F">>] = <<"A">>
  /\ Has(functionMacros, <<"F">>) /\ functionMacros[<<"F">>] = << <<"x">>, <<"y">> >>

(***************************************************************************)
(* Conditions that are no condition                                        *)
(***************************************************************************)
\* defined( ... )
DefinedShape(t) ==
  Len(t) > Len(Defined) /\ SubSeq(t, 1, Len(Defined)) = Defined /\ t[Len(t)] = ")"

\* an integer: digits after an optional -
IntegerShape(t) == Digits(t) # <<>> /\ isdigit(Digits(t)[1])

\* the text that is evaluated: the body of the object macro the condition
\* names, or the condition
ConditionText == IF Has(macros, Condition) THEN macros[Condition] ELSE Condition

Unrecognized == ~DefinedShape(Condition) /\ ~IntegerShape(ConditionText)

\* C23: the evaluation of a condition raises no error and the run goes on,
\* and a condition that is no defined(...), no integer and no name of an
\* object macro whose body is an integer is false.
ConditionNeverFails ==
  ev.op = "if" =>
    /\ status = "running"
    /\ ev.flag \in BOOLEAN
    /\ Unrecognized => ~ev.flag

\* #if - has been evaluated, to false, and the run goes on
LoneMinusFalse ==
  /\ ev.op = "if" /\ status = "running"
  /\ Condition = <<"-">> /\ Unrecognized /\ ~ev.flag

(***************************************************************************)
(* Characters of no lexical rule                                           *)
(***************************************************************************)
\* C24: a token of kind Unknown is one character, and what is written to
\* the output for it is that character: a line break for a newline of the
\* input, and for a character of no lexical rule the character itself.
UnknownEmittedAsText ==
  ev.op = "newline" =>
    /\ next(buffer, ev.cursor).len = 1
    /\ ev.text = <<At(buffer, ev.pos)>>

\* A @ B: a line break has been written for the @
LineBreakForAt ==
  /\ ev.op = "newline" /\ ~ev.flag
  /\ At(buffer, ev.pos) = "@"
  /\ next(buffer, ev.cursor).kind = "Unknown"
  /\ ev.text = <<"\n">>

(***************************************************************************)
(* The tokens of next() and the end of the buffer                          *)
(***************************************************************************)
\* C25: every token that next() has returned lies inside the buffer,
\* begin + len <= buffer length, and the cursor is never past the end of
\* the buffer, whatever the buffer and however many calls were made; this
\* holds for string literals that are not closed or that end in a backslash.
TokensInsideBuffer ==
  Lexing =>
    /\ cursor <= Len(buffer)
    /\ \A i \in 1..Len(result) : result[i].begin + result[i].len <= Len(buffer)

\* "\ : the literal is two characters, the token three, the cursor at three
BackslashLiteralPastEnd ==
  /\ Lexing
  /\ buffer = <<"\"", "\\">>
  /\ Len(result) >= 1
  /\ result[1] = Tok(0, 3, "StringLiteral", 3)
  /\ cursor = 3

\* a block comment opens at p, outside any literal or comment, and no */
\* follows it
UnclosedAt(buf, p) ==
  /\ p + 1 < Len(buf)
  /\ At(buf, p) = "/" /\ At(buf, p + 1) = "*"
  /\ \A q \in 0..(p - 1) : At(buf, q) \notin {"\"", "/"}
  /\ \A q \in (p + 2)..(Len(buf) - 2) : ~(At(buf, q) = "*" /\ At(buf, q + 1) = "/")

\* C26: a block comment that is opened and never closed takes the rest of
\* the buffer: every token returned is the end of input or lies before the
\* comment, none is made of the comment's characters.
UnclosedCommentConsumed ==
  Lexing =>
    \A p \in 0..(Len(buffer) - 1) :
      UnclosedAt(buffer, p) =>
        \A i \in 1..Len(result) :
          \/ result[i].kind = "T_EOF"
          \/ result[i].begin + result[i].len <= p

\* /*a : the a of the comment is returned as an identifier
CommentTailReturned ==
  /\ Lexing
  /\ buffer = <<"/", "*", "a">>
  /\ UnclosedAt(buffer, 0)
  /\ Len(result) >= 1
  /\ result[1] = Tok(2, 1, "Ident", 3)

\* the spellings of the punctuators of next()
Spellings ==
  { <<".",".",".">>, <<"<","<","=">>, <<">",">","=">>,
    <<"-",">">>, <<"+","+">>, <<"-","-">>, <<"&","&">>, <<"|","|">>,
    <<"<","<">>, <<">",">">>, <<"<","=">>, <<">","=">>, <<"=","=">>,
    <<"!","=">>, <<"*","=">>, <<"/","=">>, <<"%","=">>, <<"+","=">>,
    <<"-","=">>, <<"&","=">>, <<"^","=">>, <<"|","=">> }
  \cup { <<c>> : c \in {"[", "]", "(", ")", "{", "}", ".", "&", "*", "+",
                        "-", "~", "!", "/", "%", "<", ">", "^", "|", "?",
                        ":", ";", "=", ","} }

\* the length of the longest spelling that the buffer holds at s
Longest(buf, s) ==
  IF s + 3 <= Len(buf) /\ Text(buf, s, 3) \in Spellings THEN 3
  ELSE IF s + 2 <= Len(buf) /\ Text(buf, s, 2) \in Spellings THEN 2
  ELSE IF s + 1 <= Len(buf) /\ Text(buf, s, 1) \in Spellings THEN 1
  ELSE 0

\* C27: a punctuator token is the longest punctuator spelled at its
\* position, also when it is the last text of the buffer: <<= is one
\* token, -> is one token, ... is one Ellipsis token.
LongestMatch ==
  Lexing =>
    \A i \in 1..Len(result) :
      (result[i].len > 0 /\ Longest(buffer, result[i].begin) > 0) =>
        result[i].len = Longest(buffer, result[i].begin)

\* ... as the whole buffer: three Dot tokens
EllipsisAtEndSplit ==
  /\ Lexing
  /\ buffer = <<".", ".", ".">>
  /\ Len(result) >= 3
  /\ \A i \in 1..3 : result[i] = Tok(i - 1, 1, "Dot", i)

\* <<= and -> as the last text of the buffer are one token each
ShiftAssignAtEndWhole ==
  /\ Lexing
  /\ buffer = <<"<", "<", "=">>
  /\ Len(result) >= 1
  /\ result[1] = Tok(0, 3, "LessLessEqual", 3)

(***************************************************************************)
(* LinColQuery: from an offset to a line and a column.  The offsets, the   *)
(* lines and the columns are unsigned; the model keeps UnsignedBits bits   *)
(* of them, which is more than any offset of its buffers needs.            *)
(***************************************************************************)
UnsignedBits == 16

\* std::lower_bound on lines[first .. first + len - 1], positions from 0
RECURSIVE LowerBoundIn(_, _, _, _)
LowerBoundIn(lines, offset, first, len) ==
  IF len <= 0 THEN first
  ELSE IF lines[first + (len \div 2) + 1] < offset
       THEN LowerBoundIn(lines, offset, first + (len \div 2) + 1, len - (len \div 2) - 1)
       ELSE LowerBoundIn(lines, offset, first, len \div 2)

\* the three branches of getLineCol, it the position lower_bound found
getLineCol(lines, offset) ==
  LET it == LowerBoundIn(lines, offset, 0, Len(lines)) IN
  IF it = Len(lines)
  THEN [line |-> Len(lines),
        col |-> (offset - lines[Len(lines)] + 1) % (2 ^ UnsignedBits)]
  ELSE IF it = 0
  THEN [line |-> 1, col |-> (offset + 1) % (2 ^ UnsignedBits)]
  ELSE [line |-> it, col |-> (offset - lines[it + 1] + 1) % (2 ^ UnsignedBits)]

\* lincol_.getLineCol(offset), asked by the caller between two next()
QueryLineCol ==
  /\ Lexing
  /\ \E offset \in 0..Len(buffer) :
       ev' = [op |-> "getLineCol", name |-> <<>>, text |-> <<>>, flag |-> FALSE,
              pos |-> offset, depth |-> 0, cursor |-> cursor,
              line |-> getLineCol(lineoffset, offset).line,
              col |-> getLineCol(lineoffset, offset).col]
  /\ UNCHANGED <<buffer, cursor, macros, functionMacros, functionMacroReplacements,
                 lineoffset, result, stack, status, prog, emitted, executed>>

LineNext == CallNext \/ QueryLineCol

LineSpec == LexInit /\ [][LineNext]_vars

\* the line index holds its offsets in increasing order
Increasing(lines) == \A i \in 1..(Len(lines) - 1) : lines[i] < lines[i + 1]

\* the 1-based line of offset: the last line that starts at or before it
LineHolding(lines, offset) ==
  CHOOSE k \in 1..Len(lines) :
    /\ lines[k] <= offset
    /\ \A j \in (k + 1)..Len(lines) : lines[j] > offset

\* C28: with the line starts in increasing order, getLineCol(offset) is
\* the 1-based line with the greatest start <= offset and the column
\* offset - start + 1, a column that is at least 1, the subtraction never
\* wrapping around.
LineColOfOffset ==
  (ev.op = "getLineCol" /\ Increasing(lineoffset)) =>
    /\ ev.line = LineHolding(lineoffset, ev.pos)
    /\ ev.col = ev.pos - lineoffset[LineHolding(lineoffset, ev.pos)] + 1
    /\ ev.col >= 1
    /\ ev.col <= ev.pos + 1

\* aa and a newline, all read: offset 1 is given line 1 and a column that
\* has wrapped around
ColumnWrapped ==
  /\ ev.op = "getLineCol"
  /\ buffer = <<"a", "a", "\n">>
  /\ lineoffset = <<0, 3>>
  /\ ev.pos = 1
  /\ ev.line = 1
  /\ ev.col = (2 ^ UnsignedBits) - 1

\* a and a newline, all read: offset 2, the start of line 2, is given line 1
LineStartOnLineBefore ==
  /\ ev.op = "getLineCol"
  /\ buffer = <<"a", "\n">>
  /\ lineoffset = <<0, 2>>
  /\ ev.pos = 2
  /\ ev.line = 1 /\ ev.col = 1

(***************************************************************************)
(* process() as a function of the buffer: the loop of process() run to its *)
(* end, with the handlers of the ProcessNext actions.  ndebug tells        *)
(* whether the build has compiled the assert out.                          *)
(***************************************************************************)
RECURSIVE ProcessFrom(_, _, _)

\* one iteration of the loop, o what the iterations before have left
ProcessIteration(buf, o, ndebug, tk, dir) ==
  IF ~o.ok THEN [status |-> "error", table |-> o]
  ELSE IF tk.kind = "T_EOF"
  THEN [status |-> "processed", table |-> [o EXCEPT !.cursor = tk.cursor]]
  ELSE IF tk.kind # "Hash"
  THEN ProcessFrom(buf, [o EXCEPT !.cursor = tk.cursor,
                                  !.lineoffset = addLine(o.lineoffset, buf, tk)], ndebug)
  ELSE IF dir.kind = "Include"
  THEN ProcessFrom(buf, handle_include(buf, dir.cursor, o.lineoffset, o.macros,
                                       o.functionMacros, o.functionMacroReplacements), ndebug)
  ELSE IF dir.kind = "Define"
  THEN ProcessFrom(buf, handle_define(buf, dir.cursor, o.lineoffset, o.macros,
                                      o.functionMacros, o.functionMacroReplacements), ndebug)
  ELSE IF dir.kind = "Undef"
  THEN ProcessFrom(buf, handle_undef(buf, dir.cursor, o.lineoffset, o.macros,
                                     o.functionMacros, o.functionMacroReplacements), ndebug)
  ELSE IF dir.kind = "If"
  THEN IF evaluate_condition(read_line(buf, dir.cursor).line, o.macros, o.functionMacros)
       THEN ProcessFrom(buf, [o EXCEPT !.cursor = read_line(buf, dir.cursor).cursor], ndebug)
       ELSE ProcessFrom(buf,
              [o EXCEPT !.cursor = skip_until_else_or_endif(buf, read_line(buf, dir.cursor).cursor,
                                                            o.lineoffset).cursor,
                        !.lineoffset = skip_until_else_or_endif(buf, read_line(buf, dir.cursor).cursor,
                                                                o.lineoffset).lines], ndebug)
  ELSE IF dir.kind = "Else"
  THEN ProcessFrom(buf, [o EXCEPT !.cursor = skip_until_endif(buf, dir.cursor, o.lineoffset).cursor,
                                  !.lineoffset = skip_until_endif(buf, dir.cursor, o.lineoffset).lines],
                   ndebug)
  ELSE IF dir.kind = "Endif"
  THEN ProcessFrom(buf, [o EXCEPT !.cursor = dir.cursor], ndebug)
  ELSE IF ndebug
  THEN ProcessFrom(buf, [o EXCEPT !.cursor = dir.cursor,
                                  !.lineoffset = addLine(o.lineoffset, buf, dir)], ndebug)
  ELSE [status |-> "aborted", table |-> o]

ProcessFrom(buf, o, ndebug) ==
  ProcessIteration(buf, o, ndebug, next(buf, o.cursor), next(buf, next(buf, o.cursor).cursor))

\* PreProcessor pp(buf); pp.process();
process(buf, ndebug) ==
  ProcessFrom(buf, Outcome(TRUE, 0, <<0>>, EmptyMap, EmptyMap, EmptyMap), ndebug)

\* the run of process() by its actions ends as the function says
ProcessAsFunction ==
  /\ status = "processed" =>
       \E ndebug \in BOOLEAN :
         /\ process(buffer, ndebug).status = "processed"
         /\ process(buffer, ndebug).table =
              Outcome(TRUE, cursor, lineoffset, macros, functionMacros,
                      functionMacroReplacements)
  /\ status = "aborted" => process(buffer, FALSE).status = "aborted"
  /\ (status = "error" /\ ~Running) =>
       \E ndebug \in BOOLEAN : process(buffer, ndebug).status = "error"

\* the three maps of a table
MacroTable(o) == <<o.macros, o.functionMacros, o.functionMacroReplacements>>

\* C29: on a buffer on which neither pass fails, process() and expand()
\* leave the same macro table: the same object macros with the same bodies
\* and the same function macros with the same parameters and bodies.
SameMacroTable ==
  Done =>
    \A ndebug \in BOOLEAN :
      process(buffer, ndebug).status = "processed" =>
        MacroTable(process(buffer, ndebug).table) =
          <<macros, functionMacros, functionMacroReplacements>>

\* #if 1 / #else / #define A 1 / #endif: expand has defined A, process()
\* has not
ElseDefineOnlyInExpand ==
  /\ Done
  /\ prog = <<IfTrue, Else, DefA, Endif>>
  /\ Has(macros, <<"A">>)
  /\ \A ndebug \in BOOLEAN :
       /\ process(buffer, ndebug).status = "processed"
       /\ ~Has(process(buffer, ndebug).table.macros, <<"A">>)

(***************************************************************************)
(* process() and a # that no directive follows                             *)
(***************************************************************************)
\* C30: process() fails only with a fatal error of a directive's syntax; a
\* # followed by a token that is none of include, define, undef, if, else,
\* endif does not abort the run, process() goes on with the rest of the
\* buffer.
UnknownDirectiveGoesOn ==
  /\ status # "aborted"
  /\ (ev.op = "other" /\ ~Running) => Processing

\* #pragma once: the assertion has ended the run
PragmaAborted ==
  /\ status = "aborted"
  /\ ev.op = "other"
  /\ prog[1] = Pragma
  /\ ev.pos = 0

\* # at the end of its line: the assertion has ended the run
LoneHashAborted ==
  /\ status = "aborted"
  /\ ev.op = "other"
  /\ prog = <<LoneHash, UseA>>
====
